---- MODULE Spec2Model ----
(***************************************************************************)
(* Buddy allocator of rust-custom-alloc: the engine of                     *)
(* src/src/inner_allocator.rs (AddressSpaceRef / InnerBuddy), the bit math *)
(* of src/src/protected_allocator/math/math64.rs and the std Mutex facade  *)
(* of src/src/lib.rs.                                                      *)
(*                                                                         *)
(* A usize is a 64-bit word, kept as a function from bit positions         *)
(* 0..63 (bit 0 = least significant) to {0, 1}, so that the bit-smear, the *)
(* wrapping multiplication and the size thresholds are the ones of the     *)
(* 64-bit build.  Tree indexes, arena offsets and addresses of the small   *)
(* arenas of the state machine are plain integers.                         *)
(***************************************************************************)
EXTENDS Integers, Sequences, FiniteSets, Bags, TLC

(***************************************************************************)
(* Machine words                                                           *)
(***************************************************************************)
\* target_pointer_width = "64"
WordBits == 64

\* number of low bits of a word an integer of this model can hold
IntBits == WordBits \div 2 - 1

BitIdx == 0 .. (WordBits - 1)

\* the function f itself, tabulated: TLC keeps [x \in S |-> e] unevaluated and
\* f @@ f makes it compute the values once
Word(f) == f @@ f

\* usize literal n (0 <= n < 2^31)
FromNat(n) == Word([i \in BitIdx |-> IF i < IntBits THEN (n \div (2 ^ i)) % 2 ELSE 0])

\* TRUE when the word is small enough to be read back as an integer
Fits(w) == \A i \in IntBits .. (WordBits - 1) : w[i] = 0

\* value of the bits lo .. hi of w, bit i counting 2^i (halving keeps the
\* evaluation shallow)
RECURSIVE ToNatRange(_, _, _)
ToNatRange(w, lo, hi) ==
    IF lo = hi THEN w[lo] * (2 ^ lo)
    ELSE LET mid == (lo + hi) \div 2
         IN  ToNatRange(w, lo, mid) + ToNatRange(w, mid + 1, hi)

\* value of a word that Fits
ToNat(w) == ToNatRange(w, 0, IntBits - 1)

\* 1 << k
Pow2W(k) == Word([i \in BitIdx |-> IF i = k THEN 1 ELSE 0])

\* usize::MAX
USIZE_MAX == Word([i \in BitIdx |-> 1])

WZero == Word([i \in BitIdx |-> 0])

WOne == Pow2W(0)

\* a | b
WOr(a, b) == Word([i \in BitIdx |-> IF a[i] = 1 \/ b[i] = 1 THEN 1 ELSE 0])

\* a & b
WAnd(a, b) == Word([i \in BitIdx |-> IF a[i] = 1 /\ b[i] = 1 THEN 1 ELSE 0])

\* !a
WNot(a) == Word([i \in BitIdx |-> 1 - a[i]])

\* a >> k
Shr(a, k) == Word([i \in BitIdx |-> IF i + k < WordBits THEN a[i + k] ELSE 0])

\* a << k (bits shifted out are lost)
Shl(a, k) == Word([i \in BitIdx |-> IF i >= k THEN a[i - k] ELSE 0])

\* carry into bit i of a + b: some lower bit j generates a carry (both bits
\* set) and every bit between j and i propagates it (at least one bit set)
CarryIn(a, b, i) ==
    \E j \in 0 .. (i - 1) :
        /\ a[j] = 1
        /\ b[j] = 1
        /\ \A k \in (j + 1) .. (i - 1) : a[k] = 1 \/ b[k] = 1

\* a + b, wrapping at 2^64
WAdd(a, b) ==
    Word([i \in BitIdx |->
            (a[i] + b[i] + (IF CarryIn(a, b, i) THEN 1 ELSE 0)) % 2])

\* a - b, wrapping at 2^64
WSub(a, b) == WAdd(a, WAdd(WNot(b), WOne))

\* a.overflowing_mul(b).0 : the sum of the b << i over the set bits i of a,
\* here those of the bits lo .. hi
RECURSIVE MulRange(_, _, _, _)
MulRange(a, b, lo, hi) ==
    IF \A i \in lo .. hi : a[i] = 0 THEN WZero
    ELSE IF lo = hi THEN Shl(b, lo)
    ELSE LET mid == (lo + hi) \div 2
         IN  WAdd(MulRange(a, b, lo, mid), MulRange(a, b, mid + 1, hi))

WMul(a, b) == MulRange(a, b, 0, WordBits - 1)

\* a < b, decided at the most significant bit where they differ
WLt(a, b) ==
    \E i \in BitIdx : /\ a[i] = 0
                      /\ b[i] = 1
                      /\ \A j \in (i + 1) .. (WordBits - 1) : a[j] = b[j]

WGt(a, b) == WLt(b, a)

\* 2^k mod d
RECURSIVE Pow2Mod(_, _)
Pow2Mod(k, d) ==
    IF k < IntBits THEN (2 ^ k) % d
    ELSE (Pow2Mod(IntBits - 1, d) * Pow2Mod(k - (IntBits - 1), d)) % d

\* the number written by the bits lo .. hi of a (bit lo counting 1), mod d
RECURSIVE RemRange(_, _, _, _)
RemRange(a, d, lo, hi) ==
    IF lo > hi THEN 0
    ELSE IF lo = hi THEN a[lo] % d
    ELSE LET mid == (lo + hi) \div 2
         IN  (RemRange(a, d, mid + 1, hi) * Pow2Mod(mid + 1 - lo, d)
                + RemRange(a, d, lo, mid)) % d

\* a / d for a small divisor d: long division, bit i of the quotient from
\* the remainder left by the bits above it
WDiv(a, d) ==
    Word([i \in BitIdx |->
            (2 * RemRange(a, d, i + 1, WordBits - 1) + a[i]) \div d])

\* the word written as 16 hexadecimal digits, most significant first
WordFromHex(h) ==
    Word([i \in BitIdx |-> (h[(WordBits \div 4) - (i \div 4)] \div (2 ^ (i % 4))) % 2])

(***************************************************************************)
(* Bit math (math64.rs)                                                    *)
(***************************************************************************)
\* round_up_2 without its last smear, v |= v >> 32
round_up_2_NoSmear32(v) ==
    LET v0 == WSub(v, WOne)
        v1 == WOr(v0, Shr(v0, 1))
        v2 == WOr(v1, Shr(v1, 2))
        v3 == WOr(v2, Shr(v2, 4))
        v4 == WOr(v3, Shr(v3, 8))
        v5 == WOr(v4, Shr(v4, 16))
    IN  WAdd(v5, WOne)

\* round_up_2: decrement, smear the highest set bit to the right, increment
round_up_2(v) ==
    LET v0 == WSub(v, WOne)
        v1 == WOr(v0, Shr(v0, 1))
        v2 == WOr(v1, Shr(v1, 2))
        v3 == WOr(v2, Shr(v2, 4))
        v4 == WOr(v3, Shr(v3, 8))
        v5 == WOr(v4, Shr(v4, 16))
        v6 == WOr(v5, Shr(v5, 32))
    IN  WAdd(v6, WOne)

\* IDX_ARRAY[k] is IDX_ARRAY[k + 1] here (tuples start at 1)
IDX_ARRAY ==
    << 0, 1, 2, 53, 3, 7, 54, 27, 4, 38, 41, 8, 34, 55, 48, 28, 62, 5, 39, 46,
       44, 42, 22, 9, 24, 35, 59, 56, 49, 18, 29, 11, 63, 52, 6, 26, 37, 40, 33,
       47, 61, 45, 43, 21, 23, 58, 17, 10, 51, 25, 36, 32, 60, 20, 57, 16, 50,
       31, 19, 15, 30, 14, 13, 12 >>

\* 0x022f_dd63_cc95_386d
DEBRUIJN == WordFromHex(<< 0, 2, 2, 15, 13, 13, 6, 3, 12, 12, 9, 5, 3, 8, 6, 13 >>)

\* the shift that keeps the top six bits of the product
DEBRUIJN_SHIFT == 58

\* trailing_zero_right that multiplies v itself, not its lowest set bit
trailing_zero_right_NoIsolate(v) ==
    LET idx == ToNat(Shr(WMul(v, DEBRUIJN), DEBRUIJN_SHIFT))
    IN  IDX_ARRAY[idx + 1]

\* trailing_zero_right: isolate the lowest set bit, multiply, look up
trailing_zero_right(v) ==
    LET low == WAnd(v, WAdd(WNot(v), WOne))
        idx == ToNat(Shr(WMul(low, DEBRUIJN), DEBRUIJN_SHIFT))
    IN  IDX_ARRAY[idx + 1]

(***************************************************************************)
(* Bit math on a 32-bit target (math32.rs)                                 *)
(***************************************************************************)
\* bits of a usize on the 32-bit target
WordBits32 == 32

\* a 32-bit usize: the low 32 bits of the word
Word32(w) == Word([i \in BitIdx |-> IF i < WordBits32 THEN w[i] ELSE 0])

\* round_up_2 of math32.rs: the smears stop at v >> 16
math32_round_up_2(v) ==
    LET v0 == Word32(WSub(v, WOne))
        v1 == WOr(v0, Shr(v0, 1))
        v2 == WOr(v1, Shr(v1, 2))
        v3 == WOr(v2, Shr(v2, 4))
        v4 == WOr(v3, Shr(v3, 8))
        v5 == WOr(v4, Shr(v4, 16))
    IN  Word32(WAdd(v5, WOne))

\* IDX_ARRAY of math32.rs; IDX_ARRAY[k] is math32_IDX_ARRAY[k + 1] here
math32_IDX_ARRAY ==
    << 0, 1, 28, 2, 29, 14, 24, 3, 30, 22, 20, 15, 25, 17, 4, 8, 31, 27, 13, 23,
       21, 19, 16, 7, 26, 12, 18, 6, 11, 5, 10, 9 >>

\* 0x077C_B531
math32_DEBRUIJN == WordFromHex(<< 0, 0, 0, 0, 0, 0, 0, 0, 0, 7, 7, 12, 11, 5, 3, 1 >>)

\* the shift that keeps the top five bits of the product
math32_DEBRUIJN_SHIFT == 27

\* trailing_zero_right of math32.rs
math32_trailing_zero_right(v) ==
    LET low == Word32(WAnd(v, WAdd(WNot(v), WOne)))
        idx == ToNat(Shr(Word32(WMul(low, math32_DEBRUIJN)), math32_DEBRUIJN_SHIFT))
    IN  math32_IDX_ARRAY[idx + 1]

(***************************************************************************)
(* Size and order conversions (inner_allocator.rs)                         *)
(***************************************************************************)
MIN_CELL_LEN == 8

MAX_SUPPORTED_ALIGN == 4096

MIN_BUDDY_NB == 4

FIRST_INDEX == 1

\* the max! macro on words
WMax(a, b) == IF WGt(a, b) THEN a ELSE b

\* usize::MAX / MIN_BUDDY_NB + 1
MAX_BUDDY_LEN == WAdd(WDiv(USIZE_MAX, MIN_BUDDY_NB), WOne)

Ok(v) == [ok |-> TRUE, v |-> v]

Err(e) == [ok |-> FALSE, err |-> e]

\* BuddySize::try_from without the TooBigSize test
BuddySize_try_from_SizeUnchecked(cell, layout) ==
    LET size == WMax(layout.size, WMax(layout.align, cell))
    IN  IF WGt(layout.align, FromNat(MAX_SUPPORTED_ALIGN))
        THEN Err("TooBigAlignment")
        ELSE Ok(round_up_2(size))

\* BuddySize::try_from without the TooBigAlignment test
BuddySize_try_from_AlignUnchecked(cell, layout) ==
    LET size == WMax(layout.size, WMax(layout.align, cell))
    IN  IF WGt(size, MAX_BUDDY_LEN) THEN Err("TooBigSize")
        ELSE Ok(round_up_2(size))

\* BuddySize::try_from with the alignment left out of the maximum
BuddySize_try_from_NoAlign(cell, layout) ==
    LET size == WMax(layout.size, cell)
    IN  IF WGt(size, MAX_BUDDY_LEN) THEN Err("TooBigSize")
        ELSE IF WGt(layout.align, FromNat(MAX_SUPPORTED_ALIGN))
             THEN Err("TooBigAlignment")
        ELSE Ok(round_up_2(size))

\* TryFrom<Layout> for BuddySize<M>; cell is the cell size M as a word
BuddySize_try_from(cell, layout) ==
    LET size == WMax(layout.size, WMax(layout.align, cell))
    IN  IF WGt(size, MAX_BUDDY_LEN) THEN Err("TooBigSize")
        ELSE IF WGt(layout.align, FromNat(MAX_SUPPORTED_ALIGN))
             THEN Err("TooBigAlignment")
        ELSE Ok(round_up_2(size))

\* Order::try_from that answers order 0 for a buddy larger than the space
Order_try_from_Saturating(buddy_size, max_buddy_size) ==
    LET buddy_pow == trailing_zero_right(buddy_size)
        space_pow == IF max_buddy_size = USIZE_MAX THEN WordBits
                     ELSE trailing_zero_right(max_buddy_size)
    IN  IF buddy_pow > space_pow THEN Ok(0)
        ELSE Ok(space_pow - buddy_pow)

\* TryFrom<(BuddySize, BuddySize)> for Order (64-bit build)
Order_try_from(buddy_size, max_buddy_size) ==
    LET buddy_pow == trailing_zero_right(buddy_size)
        space_pow == IF max_buddy_size = USIZE_MAX THEN WordBits
                     ELSE trailing_zero_right(max_buddy_size)
    IN  IF buddy_pow > space_pow THEN Err("CannotFit")
        ELSE Ok(space_pow - buddy_pow)

(***************************************************************************)
(* Requests and arenas of the state machine                                *)
(***************************************************************************)
Layout(size, align) == [size |-> size, align |-> align]

\* the Layouts callers pass: every buddy size of the arenas below, sizes and
\* alignments that need rounding, and the three rejected shapes
LAYOUTS ==
    << Layout(FromNat(0), FromNat(8)),
       Layout(FromNat(1), FromNat(1)),
       Layout(FromNat(9), FromNat(1)),
       Layout(FromNat(8), FromNat(16)),
       Layout(FromNat(17), FromNat(2)),
       Layout(FromNat(1), FromNat(32)),
       Layout(FromNat(33), FromNat(1)),
       Layout(FromNat(64), FromNat(64)),
       Layout(FromNat(65), FromNat(1)),
       Layout(FromNat(100), FromNat(128)),
       Layout(FromNat(129), FromNat(4)),
       Layout(FromNat(257), FromNat(1)),
       Layout(FromNat(1), FromNat(4096)),
       Layout(FromNat(1), FromNat(8192)),
       Layout(Pow2W(62), FromNat(1)),
       Layout(WAdd(Pow2W(62), WOne), FromNat(1)),
       Layout(WAdd(Pow2W(62), WOne), FromNat(8192)) >>

LayoutIds == DOMAIN LAYOUTS

\* what the constructor is handed: the cell size M, the byte region (address
\* and length) and the kind of metadata ("self": None, inside the region;
\* "ext": Some(buffer); "static": a StaticAddressSpace)
Region(mm, addr, len, meta) == [M |-> mm, addr |-> addr, len |-> len, meta |-> meta]

REGIONS ==
    { Region(8, 32, 32, "self"), Region(8, 4096, 32, "ext"),
      Region(64, 4096, 256, "self"), Region(64, 256, 256, "ext"),
      Region(8, 64, 64, "self"), Region(8, 8192, 64, "ext"),
      Region(64, 4096, 256, "static"),
      \* rejected by check()
      Region(4, 4096, 32, "ext"), Region(8, 4096, 16, "ext"),
      Region(8, 4096, 48, "ext"), Region(12, 4096, 64, "ext"),
      Region(8, 16, 32, "self"), Region(64, 128, 256, "ext") }

\* how the crate is built: with overflow checks (a wrapping product panics)
\* or without them (the product wraps)
Builds == { "debug", "release" }

\* a * b overflows a usize
MulOverflows(a, b) == b # 0 /\ WGt(a, WDiv(USIZE_MAX, b))

\* input.len() / M * 2 for M a power of two, as check has asserted by then
MetadataSize(mm, len) ==
    Shl(Shr(len, CHOOSE k \in BitIdx : mm[k] = 1), 1)

\* check::<M>(input) on words: the assertions of the constructors in their
\* order; Ok(metadata size) or the panic of a failed assertion
check_usize(mm, len, addr, build) ==
    LET current_align == IF WGt(len, FromNat(MAX_SUPPORTED_ALIGN))
                         THEN FromNat(MAX_SUPPORTED_ALIGN) ELSE len
    IN  IF WLt(mm, FromNat(MIN_CELL_LEN)) THEN Err("panic")
        ELSE IF WGt(mm, MAX_BUDDY_LEN) THEN Err("panic")
        ELSE IF /\ len # USIZE_MAX
                /\ \/ build = "debug" /\ MulOverflows(mm, MIN_BUDDY_NB)
                   \/ WLt(len, WMul(mm, FromNat(MIN_BUDDY_NB)))
        THEN Err("panic")
        ELSE IF len # USIZE_MAX /\ round_up_2(len) # len THEN Err("panic")
        ELSE IF round_up_2(mm) # mm THEN Err("panic")
        \* align_offset panics when the alignment is not a power of two
        ELSE IF current_align = WZero THEN Err("panic")
        ELSE IF WAnd(addr, WSub(current_align, WOne)) # WZero THEN Err("panic")
        ELSE Ok(MetadataSize(mm, len))

\* Option<&mut [u8]>: the external metadata buffer, by its length
None == [some |-> FALSE, len |-> WZero]

Some(len) == [some |-> TRUE, len |-> len]

\* AddressSpaceRef::from((input, ref_m)): check, then the metadata slice is
\* taken and its first byte written; "Ok" or a panic
From_refs(mm, len, addr, ref_m, build) ==
    LET metadata_size == check_usize(mm, len, addr, build)
    IN  IF ~metadata_size.ok THEN "panic"
        ELSE IF ref_m.some
        THEN IF metadata_size.v # ref_m.len THEN "panic"
             ELSE IF ref_m.len = WZero THEN "panic"
             ELSE "Ok"
        ELSE LET mid == WMax(metadata_size.v, mm)
             IN  IF WGt(mid, len) THEN "panic"
                 ELSE "Ok"

\* check::<M>(input) for a region of small numbers (its length is not
\* usize::MAX and no product wraps): Ok(metadata size) or the panic of a
\* failed assertion
check(mm, input) ==
    IF /\ mm >= MIN_CELL_LEN
       /\ ~WGt(FromNat(mm), MAX_BUDDY_LEN)
       /\ input.len >= mm * MIN_BUDDY_NB
       /\ round_up_2(FromNat(input.len)) = FromNat(input.len)
       /\ round_up_2(FromNat(mm)) = FromNat(mm)
       /\ LET current_align == IF input.len > MAX_SUPPORTED_ALIGN
                               THEN MAX_SUPPORTED_ALIGN ELSE input.len
          IN  input.addr % current_align = 0
    THEN Ok((input.len \div mm) * 2)
    ELSE Err("panic")

\* the regions a constructor accepts
CHECKED == { r \in REGIONS : check(r.M, r).ok }

CellLens == { r.M : r \in CHECKED }

ArenaLens == { r.len : r \in CHECKED }

\* conversions of the requests, tabulated once per cell size and arena length
BUDDY_SIZE_OF ==
    Word([mm \in CellLens |->
            Word([li \in LayoutIds |-> BuddySize_try_from(FromNat(mm), LAYOUTS[li])])])

ORDER_OF ==
    Word([mm \in CellLens |-> Word([a \in ArenaLens |-> Word([li \in LayoutIds |->
            IF BUDDY_SIZE_OF[mm][li].ok
            THEN Order_try_from(BUDDY_SIZE_OF[mm][li].v, FromNat(a))
            ELSE BUDDY_SIZE_OF[mm][li]])])])

\* Order::try_from((BuddySize(b), BuddySize(a))) for the lengths the engine
\* itself converts: the cell size and the metadata chunk
ENGINE_ORDER_OF ==
    Word([b \in CellLens \cup { (r.len \div r.M) * 2 : r \in CHECKED } |->
            Word([a \in ArenaLens |-> Order_try_from(FromNat(b), FromNat(a))])])

(***************************************************************************)
(* The engine: AddressSpaceRef (inner_allocator.rs)                        *)
(***************************************************************************)
\* bytes
BYTE_MOD == 256

OCCUPIED == 128

\* metadata[0] of an address space whose tree is not written yet
MUST_WRITE == 66

\* metadata[0] once the tree is written
WRITTEN == 255

\* b & 0x7f
Low7(b) == b % OCCUPIED

\* b & 0x80 != 0
IsMarked(b) == (b \div OCCUPIED) % 2 = 1

Min2(a, b) == IF a < b THEN a ELSE b

Max2(a, b) == IF a > b THEN a ELSE b

\* From<(&mut [u8], Option<&mut [u8]>)> and From<&'static mut StaticAddressSpace>
\* for AddressSpaceRef: the slices s and m (address and length) and
\* allocable_len; the bytes of m are the variable m
AddressSpaceRef_from(r) ==
    LET metadata_size == check(r.M, r).v
        split == Max2(metadata_size, r.M)
    IN  IF r.meta = "self"
        THEN [M |-> r.M, allocable_len |-> r.len,
              s_addr |-> r.addr + split, s_len |-> r.len - split,
              m_addr |-> r.addr, m_len |-> split]
        ELSE [M |-> r.M, allocable_len |-> r.len,
              s_addr |-> r.addr, s_len |-> r.len,
              m_addr |-> r.addr + r.len, m_len |-> metadata_size]

\* the first bytes of m the constructor leaves: garbage g with m[0] = 0x42
\* (a StaticAddressSpace is zeroed, with metadata[0] = 0x42)
Metadata_from(r, g) ==
    Word([i \in 0 .. ((r.len \div r.M) * 2 - 1) |-> IF i = 0 THEN MUST_WRITE ELSE g])

\* max order of the space: Order::try_from((BuddySize(M), BuddySize(allocable_len)))
MaxOrder(sp) == ENGINE_ORDER_OF[sp.M][sp.allocable_len].v

\* modify_parents without the coalescing case of Deallocate
RECURSIVE modify_parents_MinOnly(_, _, _, _)
modify_parents_MinOnly(mm, index, order, op) ==
    IF index > FIRST_INDEX
    THEN LET parent == index \div 2
             child_left == 2 * parent
             child_right == child_left + 1
             new_indice == Min2(Low7(mm[child_left]), Low7(mm[child_right]))
         IN  IF mm[parent] # new_indice
             THEN modify_parents_MinOnly([mm EXCEPT ![parent] = new_indice], parent,
                                         (order - 1) % BYTE_MOD, op)
             ELSE mm
    ELSE mm

\* modify_parents that reports nothing to the ancestors
modify_parents_Skip(mm, index, order, op) == mm

\* modify_parents that stops once the parent of the node is written
modify_parents_StopAtParent(mm, index, order, op) ==
    IF index > FIRST_INDEX
    THEN LET parent == index \div 2
             child_left == 2 * parent
             child_right == child_left + 1
             new_indice ==
                 IF op = "Allocate"
                 THEN Min2(Low7(mm[child_left]), Low7(mm[child_right]))
                 ELSE IF mm[child_left] = order /\ mm[child_right] = order
                      THEN (order - 1) % BYTE_MOD
                      ELSE Min2(Low7(mm[child_left]), Low7(mm[child_right]))
         IN  [mm EXCEPT ![parent] = new_indice]
    ELSE mm

\* modify_parents that takes the minimum of the children's whole bytes,
\* without & 0x7f
RECURSIVE modify_parents_NoMask(_, _, _, _)
modify_parents_NoMask(mm, index, order, op) ==
    IF index > FIRST_INDEX
    THEN LET parent == index \div 2
             child_left == 2 * parent
             child_right == child_left + 1
             new_indice ==
                 IF op = "Allocate"
                 THEN Min2(mm[child_left], mm[child_right])
                 ELSE IF mm[child_left] = order /\ mm[child_right] = order
                      THEN (order - 1) % BYTE_MOD
                      ELSE Min2(mm[child_left], mm[child_right])
         IN  IF mm[parent] # new_indice
             THEN modify_parents_NoMask([mm EXCEPT ![parent] = new_indice], parent,
                                        (order - 1) % BYTE_MOD, op)
             ELSE mm
    ELSE mm

\* modify_parents: report a change of node index to its ancestors
RECURSIVE modify_parents(_, _, _, _)
modify_parents(mm, index, order, op) ==
    IF index > FIRST_INDEX
    THEN LET parent == index \div 2
             child_left == 2 * parent
             child_right == child_left + 1
             new_indice ==
                 IF op = "Allocate"
                 THEN Min2(Low7(mm[child_left]), Low7(mm[child_right]))
                 ELSE IF mm[child_left] = order /\ mm[child_right] = order
                      THEN (order - 1) % BYTE_MOD
                      ELSE Min2(Low7(mm[child_left]), Low7(mm[child_right]))
         IN  IF mm[parent] # new_indice
             THEN modify_parents([mm EXCEPT ![parent] = new_indice], parent,
                                 (order - 1) % BYTE_MOD, op)
             ELSE mm
    ELSE mm

\* the u8 subtractions of modify_parents do not underflow: order - 1 of the
\* coalescing case and order.0 -= 1 at the end of a turn are evaluated with
\* order >= 1
RECURSIVE ParentOrdersPositive(_, _, _, _)
ParentOrdersPositive(mm, index, order, op) ==
    IF index > FIRST_INDEX
    THEN LET parent == index \div 2
             child_left == 2 * parent
             child_right == child_left + 1
             coalesce == op = "Deallocate" /\ mm[child_left] = order
                                           /\ mm[child_right] = order
             new_indice ==
                 IF coalesce THEN (order - 1) % BYTE_MOD
                 ELSE Min2(Low7(mm[child_left]), Low7(mm[child_right]))
         IN  /\ coalesce => order >= 1
             /\ mm[parent] # new_indice =>
                    /\ order >= 1
                    /\ ParentOrdersPositive([mm EXCEPT ![parent] = new_indice],
                                            parent, order - 1, op)
    ELSE TRUE

\* the descent of set_mark that always takes the left child
RECURSIVE Descend_Left(_, _, _, _)
Descend_Left(mm, index, current_order, order) ==
    IF current_order < order
    THEN Descend_Left(mm, 2 * index, current_order + 1, order)
    ELSE index

\* the descent that prefers the right child when its byte is <= order
RECURSIVE Descend_RightFirst(_, _, _, _)
Descend_RightFirst(mm, index, current_order, order) ==
    IF current_order < order
    THEN Descend_RightFirst(mm,
                            IF mm[2 * index + 1] <= order THEN 2 * index + 1 ELSE 2 * index,
                            current_order + 1, order)
    ELSE index

\* the descent of set_mark: left child when its byte is <= order, else right
RECURSIVE Descend(_, _, _, _)
Descend(mm, index, current_order, order) ==
    IF current_order < order
    THEN Descend(mm,
                 IF mm[2 * index] <= order THEN 2 * index ELSE 2 * index + 1,
                 current_order + 1, order)
    ELSE index

\* the debug_assert! of the loop of set_mark holds at every turn: the byte of
\* the child that is chosen is above the order of its parent
RECURSIVE DescendAsserts(_, _, _, _)
DescendAsserts(mm, index, current_order, order) ==
    IF current_order < order
    THEN LET child == IF mm[2 * index] <= order THEN 2 * index ELSE 2 * index + 1
         IN  /\ current_order < mm[child]
             /\ DescendAsserts(mm, child, current_order + 1, order)
    ELSE TRUE

\* the number of turns of the while loop of set_mark
RECURSIVE DescendSteps(_, _, _, _)
DescendSteps(mm, index, current_order, order) ==
    IF current_order < order
    THEN 1 + DescendSteps(mm,
                          IF mm[2 * index] <= order THEN 2 * index ELSE 2 * index + 1,
                          current_order + 1, order)
    ELSE 0

\* the number of turns of the while loop of modify_parents, the one that
\* ends in break included
RECURSIVE ParentSteps(_, _, _, _)
ParentSteps(mm, index, order, op) ==
    IF index > FIRST_INDEX
    THEN LET parent == index \div 2
             child_left == 2 * parent
             child_right == child_left + 1
             new_indice ==
                 IF op = "Allocate"
                 THEN Min2(Low7(mm[child_left]), Low7(mm[child_right]))
                 ELSE IF mm[child_left] = order /\ mm[child_right] = order
                      THEN (order - 1) % BYTE_MOD
                      ELSE Min2(Low7(mm[child_left]), Low7(mm[child_right]))
         IN  IF mm[parent] # new_indice
             THEN 1 + ParentSteps([mm EXCEPT ![parent] = new_indice], parent,
                                  (order - 1) % BYTE_MOD, op)
             ELSE 1
    ELSE 0

\* the end of set_mark with the order of the chunk, plus one, in the low bits
mark_node_OwnOrder(sp, mm, order, index) ==
    [ok |-> TRUE, v |-> index,
     m |-> modify_parents([mm EXCEPT ![index] = (OCCUPIED + order + 1) % BYTE_MOD],
                          index, order, "Allocate")]

\* the end of set_mark: node index is marked occupied and reported upwards
mark_node(sp, mm, order, index) ==
    [ok |-> TRUE, v |-> index,
     m |-> modify_parents([mm EXCEPT ![index] = (OCCUPIED + MaxOrder(sp) + 1) % BYTE_MOD],
                          index, order, "Allocate")]

\* set_mark: Ok(index) with the new bytes, or NoMoreSpace
set_mark(sp, mm, order) ==
    IF order < mm[FIRST_INDEX]
    THEN Err("NoMoreSpace")
    ELSE mark_node(sp, mm, order, Descend(mm, FIRST_INDEX, 0, order))

\* unset_mark that frees the node and leaves the ancestors as they are
unset_mark_KeepParents(mm, order, index) ==
    IF ~IsMarked(mm[index])
    THEN Err("DoubleFreeOrCorruption")
    ELSE [ok |-> TRUE, m |-> [mm EXCEPT ![index] = order]]

\* unset_mark without the test of the occupied bit
unset_mark_Unchecked(mm, order, index) ==
    [ok |-> TRUE,
     m |-> modify_parents([mm EXCEPT ![index] = order], index, order, "Deallocate")]

\* unset_mark: Ok with the new bytes, or DoubleFreeOrCorruption
unset_mark(mm, order, index) ==
    IF ~IsMarked(mm[index])
    THEN Err("DoubleFreeOrCorruption")
    ELSE [ok |-> TRUE,
          m |-> modify_parents([mm EXCEPT ![index] = order], index, order,
                               "Deallocate")]

\* the loop of write_metadata: byte index gets the depth of node index
RECURSIVE WriteOrders(_, _, _, _, _)
WriteOrders(mm, current_order, members, index, bytes_needed) ==
    IF index < bytes_needed
    THEN LET left == members - 1
             next_order == IF left = 0 THEN current_order + 1 ELSE current_order
         IN  WriteOrders([mm EXCEPT ![index] = current_order], next_order,
                         IF left = 0 THEN 2 ^ next_order ELSE left,
                         index + 1, bytes_needed)
    ELSE mm

\* write_metadata that does not reserve the chunk of self-hosted metadata
write_metadata_NoBootstrap(sp, mm) ==
    [ok |-> TRUE,
     m |-> [WriteOrders(mm, 0, 2, 0, (2 ^ MaxOrder(sp)) * 2) EXCEPT ![0] = WRITTEN]]

\* the end of write_metadata: the answer of the bootstrap set_mark is
\* unwrapped (expect() panics on an error) and m[0] is stamped
stamp_metadata(mark) ==
    IF mark.ok
    THEN [ok |-> TRUE, m |-> [mark.m EXCEPT ![0] = WRITTEN]]
    ELSE Err("panic")

\* the bootstrap of write_metadata: the chunk of self-hosted metadata is
\* reserved in the tree just written
bootstrap_metadata(sp, written, order) ==
    IF sp.allocable_len # sp.s_len
    THEN stamp_metadata(IF order.ok THEN set_mark(sp, written, order.v) ELSE order)
    ELSE [ok |-> TRUE, m |-> [written EXCEPT ![0] = WRITTEN]]

\* write_tree whose loop starts with one member left at order 0
write_tree_OneMember(sp, mm, bytes_needed) ==
    bootstrap_metadata(sp, WriteOrders(mm, 0, 1, 0, bytes_needed),
                       ENGINE_ORDER_OF[Max2(bytes_needed, sp.M)][sp.allocable_len])

\* write_metadata from bytes_needed on: the orders of the free tree, then the
\* bootstrap with the order of the metadata chunk
write_tree(sp, mm, bytes_needed) ==
    bootstrap_metadata(sp, WriteOrders(mm, 0, 2, 0, bytes_needed),
                       ENGINE_ORDER_OF[Max2(bytes_needed, sp.M)][sp.allocable_len])

\* write_metadata: Ok with the new bytes, or the panic of an expect()
write_metadata(sp, mm) == write_tree(sp, mm, (2 ^ MaxOrder(sp)) * 2)

\* check_metadata that reads the flag at index 1
check_metadata_RootFlag(sp, mm) ==
    IF mm[FIRST_INDEX] = MUST_WRITE THEN write_metadata(sp, mm) ELSE [ok |-> TRUE, m |-> mm]

\* check_metadata that writes the tree at every call
check_metadata_Rewrite(sp, mm) == write_metadata(sp, mm)

\* check_metadata: write the tree when m[0] says it is not written
check_metadata(sp, mm) ==
    IF mm[0] = MUST_WRITE THEN write_metadata(sp, mm) ELSE [ok |-> TRUE, m |-> mm]

\* TRUE when the metadata lies inside the arena (allocable_len != s.len())
SelfHosted(sp) == sp.allocable_len # sp.s_len

\* the end of alloc: self.s.get_mut(alloc_offset..alloc_offset + buddy_size.0),
\* whose unwrap() panics when the range is not inside s (also after the
\* subtraction of m.len() has wrapped)
alloc_slice(sp, marked, alloc_offset, len) ==
    IF alloc_offset < 0 \/ alloc_offset + len > sp.s_len
    THEN [res |-> "panic", ptr |-> 0, len |-> 0, m |-> marked]
    ELSE [res |-> "Ok", ptr |-> sp.s_addr + alloc_offset, len |-> len, m |-> marked]

\* alloc once set_mark has answered: the offset of the chunk in the arena,
\* less m.len() when the metadata is inside the arena
alloc_marked(sp, mm, buddy_size, order, mark) ==
    IF ~mark.ok
    THEN [res |-> mark.err, ptr |-> 0, len |-> 0, m |-> mm]
    ELSE alloc_slice(sp, mark.m,
                     (sp.allocable_len \div (2 ^ order)) * (mark.v % (2 ^ order))
                         - (IF SelfHosted(sp) THEN sp.m_len ELSE 0),
                     ToNat(buddy_size))

\* alloc once the layout is converted: the two ? of the conversions, then
\* set_mark
alloc_converted(sp, mm, buddy_size, order) ==
    IF ~buddy_size.ok
    THEN [res |-> buddy_size.err, ptr |-> 0, len |-> 0, m |-> mm]
    ELSE IF ~order.ok
    THEN [res |-> order.err, ptr |-> 0, len |-> 0, m |-> mm]
    ELSE alloc_marked(sp, mm, buddy_size.v, order.v, set_mark(sp, mm, order.v))

\* AddressSpaceRef::alloc: the result, the slice returned and the new bytes
alloc(sp, mm, li) ==
    alloc_converted(sp, mm, BUDDY_SIZE_OF[sp.M][li], ORDER_OF[sp.M][sp.allocable_len][li])

\* the end of dealloc: the answer of unset_mark
dealloc_unmarked(mm, order, index, unmark) ==
    IF ~unmark.ok
    THEN [res |-> unmark.err, index |-> index, order |-> order, m |-> mm]
    ELSE [res |-> "Ok", index |-> index, order |-> order, m |-> unmark.m]

\* dealloc from the index on: self.m[index] panics outside the bounds of m
dealloc_at(mm, order, index) ==
    IF index \notin DOMAIN mm
    THEN [res |-> "panic", index |-> index, order |-> order, m |-> mm]
    ELSE dealloc_unmarked(mm, order, index, unset_mark(mm, order, index))

\* dealloc_converted that takes the offset of the pointer from s in both modes
dealloc_converted_UserBase(sp, mm, ptr, order) ==
    IF ~order.ok
    THEN [res |-> order.err, index |-> 0, order |-> 0, m |-> mm]
    ELSE LET alloc_offset == ptr - sp.s_addr
             start_idx == 2 ^ order.v
         IN  dealloc_at(mm, order.v,
                        start_idx + (alloc_offset * (2 ^ order.v)) \div sp.allocable_len)

\* dealloc once the layout is converted: the ? of the conversion, then the
\* offset of the pointer and the index of its node
dealloc_converted(sp, mm, ptr, order) ==
    IF ~order.ok
    THEN [res |-> order.err, index |-> 0, order |-> 0, m |-> mm]
    ELSE LET alloc_offset == ptr - (IF SelfHosted(sp) THEN sp.m_addr ELSE sp.s_addr)
             start_idx == 2 ^ order.v
         IN  dealloc_at(mm, order.v,
                        start_idx + (alloc_offset * (2 ^ order.v)) \div sp.allocable_len)

\* AddressSpaceRef::dealloc: the result, the node and order it computed and
\* the new bytes
dealloc(sp, mm, ptr, li) ==
    dealloc_converted(sp, mm, ptr, ORDER_OF[sp.M][sp.allocable_len][li])

\* InnerBuddy::alloc: check_metadata, then the engine's alloc (a panic of
\* check_metadata ends the call)
alloc_checked(sp, mm, li, init) ==
    IF init.ok THEN alloc(sp, init.m, li)
    ELSE [res |-> "panic", ptr |-> 0, len |-> 0, m |-> mm]

InnerBuddy_alloc(sp, mm, li) == alloc_checked(sp, mm, li, check_metadata(sp, mm))

\* InnerBuddy::dealloc: check_metadata, then the engine's dealloc
dealloc_checked(sp, mm, ptr, li, init) ==
    IF init.ok THEN dealloc(sp, init.m, ptr, li)
    ELSE [res |-> "panic", index |-> 0, order |-> 0, m |-> mm]

InnerBuddy_dealloc(sp, mm, ptr, li) ==
    dealloc_checked(sp, mm, ptr, li, check_metadata(sp, mm))

(***************************************************************************)
(* State                                                                   *)
(***************************************************************************)
VARIABLES
    space,   \* the AddressSpaceRef: M, s and m (address, length), allocable_len
    m,       \* the first 2 * allocable_len / M bytes of the slice m
    holder,  \* the thread inside the Mutex, 0 when it is free
    live,    \* the bag of blocks callers hold: returned by allocate, not yet freed
    out,     \* the call that returned last: its layout and what it returned
    pc,      \* where each thread is: "idle" outside the allocator, "locked"
             \* inside the critical section, holding the MutexGuard
    hook     \* the error hook of the facade: whether one is installed, the
             \* error each thread has in hand, and the hook's invocations
             \* during each thread's current call

vars == << space, m, holder, live, out, pc, hook >>

\* threads that share the allocator
NumThreads == 2

Threads == 1 .. NumThreads

\* holder of a Mutex poisoned by a panic inside the critical section
POISONED == 99

\* bytes the caller's region may hold before construction
Garbage == { 0, 33 }

NoOut == [op |-> "none", layout |-> 0, ptr |-> 0, len |-> 0, res |-> "none"]

Block(ptr, len) == [ptr |-> ptr, len |-> len]

\* the error hook: Some(hook) or None, with no call in progress
Hook(installed) ==
    [installed |-> installed,
     err |-> [t \in Threads |-> "none"],
     calls |-> [t \in Threads |-> << >>]]

\* first address of the arena
ArenaBase(sp) == IF SelfHosted(sp) THEN sp.m_addr ELSE sp.s_addr

\* the pointers callers pass to deallocate: the cell boundaries of s
UserPtrs(sp) == { sp.s_addr + k * sp.M : k \in 0 .. (sp.s_len \div sp.M - 1) }

\* the block of the arena that node index of the given order stands for
NodeBlock(sp, index, order) ==
    Block(ArenaBase(sp) + (index - 2 ^ order) * (sp.allocable_len \div (2 ^ order)),
          sp.allocable_len \div (2 ^ order))

Init ==
    \E r \in CHECKED, g \in Garbage :
        /\ r.meta = "static" => g = 0
        /\ space = AddressSpaceRef_from(r)
        /\ m = Metadata_from(r, g)
        /\ holder = 0
        /\ live = EmptyBag
        /\ out = NoOut
        /\ pc = [t \in Threads |-> "idle"]
        /\ hook = Hook(FALSE)

\* lock() that does not wait for the Mutex to be free
Acquire_NoWait(t) ==
    /\ pc[t] = "idle"
    /\ holder' = t
    /\ pc' = [pc EXCEPT ![t] = "locked"]
    /\ out' = NoOut
    /\ UNCHANGED << space, m, live, hook >>

\* self.0.lock().unwrap(): thread t enters the critical section
Acquire(t) ==
    /\ pc[t] = "idle"
    /\ holder = 0
    /\ holder' = t
    /\ pc' = [pc EXCEPT ![t] = "locked"]
    /\ out' = NoOut
    /\ UNCHANGED << space, m, live, hook >>

\* InnerBuddy::alloc under the lock, then the guard is dropped
Allocate(t, li) ==
    /\ pc[t] = "locked"
    /\ \E r \in { InnerBuddy_alloc(space, m, li) } :
           /\ m' = r.m
           /\ live' = IF r.res = "Ok"
                      THEN live (+) SetToBag({ Block(r.ptr, r.len) })
                      ELSE live
           /\ out' = [op |-> "alloc", layout |-> li, ptr |-> r.ptr, len |-> r.len,
                      res |-> r.res]
           /\ holder' = IF r.res = "panic" THEN POISONED ELSE 0
    /\ pc' = [pc EXCEPT ![t] = "idle"]
    /\ UNCHANGED << space, hook >>

\* Deallocate that keeps the guard when the engine returns an error
Deallocate_KeepLockOnError(t, ptr, li) ==
    /\ pc[t] = "locked"
    /\ \E r \in { InnerBuddy_dealloc(space, m, ptr, li) } :
           /\ m' = r.m
           /\ live' = IF r.res = "Ok"
                      THEN live (-) SetToBag({ NodeBlock(space, r.index, r.order) })
                      ELSE live
           /\ out' = [op |-> "dealloc", layout |-> li, ptr |-> 0, len |-> 0,
                      res |-> r.res]
           /\ holder' = IF r.res = "Ok" THEN 0 ELSE holder
           /\ pc' = IF r.res = "Ok" THEN [pc EXCEPT ![t] = "idle"] ELSE pc
    /\ UNCHANGED << space, hook >>

\* InnerBuddy::dealloc under the lock, then the guard is dropped
Deallocate(t, ptr, li) ==
    /\ pc[t] = "locked"
    /\ \E r \in { InnerBuddy_dealloc(space, m, ptr, li) } :
           /\ m' = r.m
           /\ live' = IF r.res = "Ok"
                      THEN live (-) SetToBag({ NodeBlock(space, r.index, r.order) })
                      ELSE live
           /\ out' = [op |-> "dealloc", layout |-> li, ptr |-> 0, len |-> 0,
                      res |-> r.res]
           /\ holder' = IF r.res = "panic" THEN POISONED ELSE 0
    /\ pc' = [pc EXCEPT ![t] = "idle"]
    /\ UNCHANGED << space, hook >>

Next ==
    \E t \in Threads :
        \/ Acquire(t)
        \/ \E li \in LayoutIds : Allocate(t, li)
        \/ \E li \in LayoutIds : \E ptr \in UserPtrs(space) : Deallocate(t, ptr, li)

Spec == Init /\ [][Next]_vars

\* thread t comes out of the critical section: its call returned and the
\* guard was dropped
Leave(t) ==
    /\ pc[t] = "locked"
    /\ pc' = [pc EXCEPT ![t] = "idle"]

\* a thread inside the critical section runs on until its call returns, and
\* the lock is handed out fairly to the threads that wait for it
FairSpec ==
    /\ Spec
    /\ \A t \in Threads : WF_pc(Leave(t)) /\ SF_vars(Acquire(t))

\* ---- the GlobalAlloc facade (lib.rs) ----

\* how a panic raised inside GlobalAlloc::dealloc ends: it unwinds out of the
\* call with the Mutex poisoned, or the runtime aborts the process
FatalOutcomes == { "panicked", "aborted" }

\* every thread of an aborted process
Aborted == [t \in Threads |-> "aborted"]

\* lock().unwrap() on a Mutex poisoned by a panic: the caller panics too
AcquirePoisoned(t) ==
    /\ pc[t] = "idle"
    /\ holder = POISONED
    /\ pc' = [pc EXCEPT ![t] = "panicked"]
    /\ UNCHANGED << space, m, holder, live, out, hook >>

\* GlobalAlloc::alloc: the pointer of the engine's block, or
\* handle_alloc_error on any error
GlobalAlloc_alloc(t, li) ==
    /\ pc[t] = "locked"
    /\ \E r \in { InnerBuddy_alloc(space, m, li) } :
           /\ m' = r.m
           /\ live' = IF r.res = "Ok"
                      THEN live (+) SetToBag({ Block(r.ptr, r.len) })
                      ELSE live
           /\ out' = [op |-> "alloc", layout |-> li, ptr |-> r.ptr, len |-> r.len,
                      res |-> r.res]
           /\ holder' = IF r.res = "Ok" THEN 0 ELSE holder
           /\ pc' = IF r.res = "Ok" THEN [pc EXCEPT ![t] = "idle"] ELSE Aborted
    /\ UNCHANGED << space, hook >>

\* GlobalAlloc::dealloc that drops the engine's error and returns
GlobalAlloc_dealloc_IgnoreError(t, ptr, li, fate) ==
    /\ pc[t] = "locked"
    /\ \E r \in { InnerBuddy_dealloc(space, m, ptr, li) } :
           /\ m' = r.m
           /\ live' = IF r.res = "Ok"
                      THEN live (-) SetToBag({ NodeBlock(space, r.index, r.order) })
                      ELSE live
           /\ out' = [op |-> "dealloc", layout |-> li, ptr |-> 0, len |-> 0,
                      res |-> r.res]
           /\ holder' = 0
           /\ pc' = [pc EXCEPT ![t] = "idle"]
    /\ UNCHANGED << space, hook >>

\* GlobalAlloc::dealloc: every error of the engine is a panic raised while
\* the guard is held
GlobalAlloc_dealloc(t, ptr, li, fate) ==
    /\ pc[t] = "locked"
    /\ \E r \in { InnerBuddy_dealloc(space, m, ptr, li) } :
           /\ m' = r.m
           /\ live' = IF r.res = "Ok"
                      THEN live (-) SetToBag({ NodeBlock(space, r.index, r.order) })
                      ELSE live
           /\ out' = [op |-> "dealloc", layout |-> li, ptr |-> 0, len |-> 0,
                      res |-> r.res]
           /\ holder' = IF r.res = "Ok" THEN 0
                        ELSE IF fate = "panicked" THEN POISONED ELSE holder
           /\ pc' = IF r.res = "Ok" THEN [pc EXCEPT ![t] = "idle"]
                    ELSE IF fate = "panicked" THEN [pc EXCEPT ![t] = "panicked"]
                    ELSE Aborted
    /\ UNCHANGED << space, hook >>

GlobalNext ==
    \E t \in Threads :
        \/ Acquire(t)
        \/ AcquirePoisoned(t)
        \/ \E li \in LayoutIds : GlobalAlloc_alloc(t, li)
        \/ \E li \in LayoutIds : \E ptr \in UserPtrs(space) : \E fate \in FatalOutcomes :
               GlobalAlloc_dealloc(t, ptr, li, fate)

GlobalSpec == Init /\ [][GlobalNext]_vars

\* ---- the reserved operations ----

\* arguments given to reserve and unreserve (_index, _size)
ReserveArgs == { 0, 1 }

\* the reserved operations of InnerBuddy
ReservedOps == { "reserve", "unreserve" }

\* InnerBuddy::reserve and InnerBuddy::unreserve that answer Ok(())
InnerBuddy_reserved_Ok(sp, mm, op) ==
    [res |-> "Ok", m |-> check_metadata(sp, mm).m]

\* InnerBuddy::reserve and InnerBuddy::unreserve, of one body:
\* check_metadata, then unimplemented!()
InnerBuddy_reserved(sp, mm, op) ==
    [res |-> "panic", m |-> check_metadata(sp, mm).m]

\* a reserved call made under the lock: its panic unwinds out of the
\* critical section and poisons the Mutex
Reserved(t, op, index, size) ==
    /\ pc[t] = "locked"
    /\ \E r \in { InnerBuddy_reserved(space, m, op) } :
           /\ m' = r.m
           /\ out' = [op |-> op, layout |-> 0, ptr |-> 0, len |-> 0, res |-> r.res]
           /\ holder' = IF r.res = "panic" THEN POISONED ELSE 0
           /\ pc' = [pc EXCEPT ![t] = IF r.res = "panic" THEN "panicked" ELSE "idle"]
    /\ UNCHANGED << space, live, hook >>

ReserveNext ==
    \E t \in Threads :
        \/ Acquire(t)
        \/ AcquirePoisoned(t)
        \/ \E li \in LayoutIds : Allocate(t, li)
        \/ \E li \in LayoutIds : \E ptr \in UserPtrs(space) : Deallocate(t, ptr, li)
        \/ \E op \in ReservedOps : \E index \in ReserveArgs : \E size \in ReserveArgs :
               Reserved(t, op, index, size)

ReserveSpec == Init /\ [][ReserveNext]_vars

\* ---- the facade with the error hook ----

\* the smallest regions a constructor accepts: MIN_BUDDY_NB cells
HookRegions == { r \in CHECKED : r.len = r.M * MIN_BUDDY_NB }

\* construction of the facade over such a region, with or without a hook
HookInit ==
    \E r \in HookRegions, g \in Garbage, installed \in BOOLEAN :
        /\ r.meta = "static" => g = 0
        /\ space = AddressSpaceRef_from(r)
        /\ m = Metadata_from(r, g)
        /\ holder = 0
        /\ live = EmptyBag
        /\ out = NoOut
        /\ pc = [t \in Threads |-> "idle"]
        /\ hook = Hook(installed)

\* where thread t goes when the engine answered res and the mutex is released
AfterCall(t, res) ==
    /\ holder' = 0
    /\ pc' = [pc EXCEPT ![t] = IF res = "Ok" THEN "idle" ELSE "failed"]
    /\ hook' = [hook EXCEPT !.err[t] = IF res = "Ok" THEN "none" ELSE res]

\* allocate of the facade: the engine method under the mutex, then the mutex
\* is released
Facade_allocate(t, li) ==
    /\ pc[t] = "locked"
    /\ \E r \in { InnerBuddy_alloc(space, m, li) } :
           /\ m' = r.m
           /\ live' = IF r.res = "Ok"
                      THEN live (+) SetToBag({ Block(r.ptr, r.len) })
                      ELSE live
           /\ out' = [op |-> "alloc", layout |-> li, ptr |-> r.ptr, len |-> r.len,
                      res |-> r.res]
           /\ AfterCall(t, r.res)
    /\ UNCHANGED space

\* deallocate of the facade: the engine method under the mutex, then the
\* mutex is released
Facade_deallocate(t, ptr, li) ==
    /\ pc[t] = "locked"
    /\ \E r \in { InnerBuddy_dealloc(space, m, ptr, li) } :
           /\ m' = r.m
           /\ live' = IF r.res = "Ok"
                      THEN live (-) SetToBag({ NodeBlock(space, r.index, r.order) })
                      ELSE live
           /\ out' = [op |-> "dealloc", layout |-> li, ptr |-> 0, len |-> 0,
                      res |-> r.res]
           /\ AfterCall(t, r.res)
    /\ UNCHANGED space

\* an error path that invokes the hook twice
InvokeHook_Twice(t) ==
    /\ pc[t] = "failed"
    /\ hook' = IF hook.installed
               THEN [hook EXCEPT !.calls[t] = Append(Append(@, hook.err[t]), hook.err[t])]
               ELSE hook
    /\ pc' = [pc EXCEPT ![t] = "returning"]
    /\ UNCHANGED << space, m, holder, live, out >>

\* the error path after the mutex is released: the hook, when there is one,
\* is invoked with the engine's error
InvokeHook(t) ==
    /\ pc[t] = "failed"
    /\ hook' = IF hook.installed
               THEN [hook EXCEPT !.calls[t] = Append(@, hook.err[t])]
               ELSE hook
    /\ pc' = [pc EXCEPT ![t] = "returning"]
    /\ UNCHANGED << space, m, holder, live, out >>

\* the error is returned to the caller
Return(t) ==
    /\ pc[t] = "returning"
    /\ pc' = [pc EXCEPT ![t] = "idle"]
    /\ hook' = [hook EXCEPT !.err[t] = "none", !.calls[t] = << >>]
    /\ UNCHANGED << space, m, holder, live, out >>

HookNext ==
    \E t \in Threads :
        \/ Acquire(t)
        \/ \E li \in LayoutIds : Facade_allocate(t, li)
        \/ \E li \in LayoutIds : \E ptr \in UserPtrs(space) : Facade_deallocate(t, ptr, li)
        \/ InvokeHook(t)
        \/ Return(t)

HookSpec == HookInit /\ [][HookNext]_vars

\* ---- construction from a byte region ----

\* cell sizes M handed to the constructor
CellWords ==
    { FromNat(4), FromNat(8), FromNat(12), FromNat(64),
      Pow2W(WordBits - 3), Pow2W(WordBits - 2), Pow2W(WordBits - 1) }

\* lengths of the region
LenWords ==
    { FromNat(16), FromNat(32), FromNat(48), FromNat(256), FromNat(8192),
      Pow2W(WordBits - 2), Pow2W(WordBits - 1), USIZE_MAX }

\* addresses of the region
AddrWords ==
    { FromNat(16), FromNat(32), FromNat(256), FromNat(2048), FromNat(4096),
      Pow2W(WordBits - 1) }

\* the external metadata buffer: none, or one of these lengths
MetaRefs ==
    { None } \cup
    { Some(FromNat(n)) : n \in { 0, 2, 4, 6, 8, 14, 64, 256, 2048 } }

\* a region, a cell size and a build, before the constructor runs
ConstructInit ==
    \E mm \in CellWords, len \in LenWords, addr \in AddrWords,
       ref_m \in MetaRefs, build \in Builds :
        /\ space = [M |-> mm, len |-> len, addr |-> addr, ref_m |-> ref_m,
                    build |-> build]
        /\ m = << >>
        /\ holder = 0
        /\ live = EmptyBag
        /\ out = NoOut
        /\ pc = [t \in Threads |-> "idle"]
        /\ hook = Hook(FALSE)

\* AddressSpaceRef::from on the region
Construct ==
    /\ out.op = "none"
    /\ out' = [op |-> "construct", layout |-> 0, ptr |-> 0, len |-> 0,
               res |-> From_refs(space.M, space.len, space.addr, space.ref_m,
                                 space.build)]
    /\ UNCHANGED << space, m, holder, live, pc, hook >>

ConstructSpec == ConstructInit /\ [][Construct]_vars

\* ---- the bit math on its own ----

\* widths of a usize: the targets of math32.rs and math64.rs
Widths == { WordBits32, WordBits }

\* non-zero words of w bits: the powers of two, their neighbours, the words
\* of two set bits and the largest word
MathWords(w) ==
    LET pows == { Pow2W(k) : k \in 0 .. (w - 1) }
    IN  pows
        \cup { WSub(p, WOne) : p \in pows \ { WOne } }
        \cup { WAdd(p, WOne) : p \in pows \ { WOne } }
        \cup { WOr(p, q) : p \in pows, q \in pows }
        \cup { WSub(WOr(p, q), WOne) : p \in { Pow2W(w - 1) }, q \in pows \ { WOne } }
        \cup { WSub(Shl(Pow2W(w - 1), 1), WOne) }

\* a word and a target, before a function is applied
MathInit ==
    \E w \in Widths : \E v \in MathWords(w) :
        /\ space = [W |-> w, v |-> v]
        /\ m = << >>
        /\ holder = 0
        /\ live = EmptyBag
        /\ out = NoOut
        /\ pc = [t \in Threads |-> "idle"]
        /\ hook = Hook(FALSE)

\* round_up_2(v) on the target; v += 1 overflows past the largest power of
\* two: a panic with overflow checks, a wrap without
RoundUp(build) ==
    /\ out.op = "none"
    /\ out' = [op |-> "round_up_2", layout |-> 0, ptr |-> 0, len |-> 0,
               res |-> IF build = "debug" /\ WGt(space.v, Pow2W(space.W - 1))
                       THEN Err("panic")
                       ELSE IF space.W = WordBits32
                            THEN Ok(math32_round_up_2(space.v))
                            ELSE Ok(round_up_2(space.v))]
    /\ UNCHANGED << space, m, holder, live, pc, hook >>

\* trailing_zero_right(v) on the target
TrailingZero ==
    /\ out.op = "none"
    /\ out' = [op |-> "trailing_zero_right", layout |-> 0, ptr |-> 0, len |-> 0,
               res |-> IF space.W = WordBits32
                       THEN math32_trailing_zero_right(space.v)
                       ELSE trailing_zero_right(space.v)]
    /\ UNCHANGED << space, m, holder, live, pc, hook >>

MathNext ==
    \/ \E build \in Builds : RoundUp(build)
    \/ TrailingZero

MathSpec == MathInit /\ [][MathNext]_vars

(***************************************************************************)
(* Reference notions the properties are stated with                        *)
(***************************************************************************)
\* two blocks share a byte
Overlap(b1, b2) == b1.ptr < b2.ptr + b2.len /\ b2.ptr < b1.ptr + b1.len

\* the blocks callers hold
LiveBlocks == BagToSet(live)

\* the powers of two a model integer holds
Pow2Ints == { 2 ^ k : k \in 0 .. (IntBits - 1) }

\* the smallest power of two >= n
NextPow2(n) == CHOOSE p \in Pow2Ints : p >= n /\ \A q \in Pow2Ints : q >= n => p <= q

\* w is the smallest power of two >= s, on words
SmallestPow2AtLeast(w, s) ==
    \E k \in BitIdx :
        /\ w = Pow2W(k)
        /\ ~WLt(w, s)
        /\ k > 0 => WLt(Pow2W(k - 1), s)

\* s = max(size, align, M) of request li with cell size mm
RequestMax(mm, li) == WMax(LAYOUTS[li].size, WMax(LAYOUTS[li].align, FromNat(mm)))

\* WORD_MAX / MIN_BUDDY_NB + 1, written as the power of two it is
TooBigFrom == Pow2W(WordBits - 2)

\* the requests whose s exceeds WORD_MAX / MIN_BUDDY_NB + 1, per cell size
REQUEST_TOO_BIG ==
    Word([mm \in CellLens |-> Word([li \in LayoutIds |->
            WGt(RequestMax(mm, li), TooBigFrom)])])

\* the requests whose alignment exceeds MAX_SUPPORTED_ALIGN
OVER_ALIGNED ==
    Word([li \in LayoutIds |-> WGt(LAYOUTS[li].align, FromNat(MAX_SUPPORTED_ALIGN))])

\* log2 of a power of two held in a model integer
Log2(n) == CHOOSE k \in 0 .. (IntBits - 1) : n = 2 ^ k

\* exponents of the buddy and arena sizes order_of is tried on
Exps == { 0, 1, 2, 3, 5, 6, 8, 12, 31, 32, 33, 61, 62, 63 }

\* size and align of a request that Fits
LayoutFits(li) == Fits(LAYOUTS[li].size) /\ Fits(LAYOUTS[li].align)

SizeOf(li) == ToNat(LAYOUTS[li].size)

AlignOf(li) == ToNat(LAYOUTS[li].align)

\* the user-visible part of the arena: all of it with external metadata, what
\* follows the metadata prefix when the metadata is self-hosted
MetadataPrefix(sp) ==
    IF SelfHosted(sp) THEN Max2((sp.allocable_len \div sp.M) * 2, sp.M) ELSE 0

UserLo(sp) == ArenaBase(sp) + MetadataPrefix(sp)

UserHi(sp) == ArenaBase(sp) + sp.allocable_len

\* a block of b bytes at a multiple of b that no live block and no metadata
\* prefix overlaps
FreeBlockExists(sp, lv, b) ==
    \E k \in 0 .. (sp.allocable_len \div b - 1) :
        LET blk == Block(ArenaBase(sp) + k * b, b)
        IN  /\ \A l \in BagToSet(lv) : ~Overlap(blk, l)
            /\ blk.ptr >= UserLo(sp)

\* the requests that pass validation with a buddy size of at most the arena,
\* per cell size and arena length
FITS_ARENA ==
    Word([mm \in CellLens |-> Word([a \in ArenaLens |-> Word([li \in LayoutIds |->
            /\ BUDDY_SIZE_OF[mm][li].ok
            /\ ~WGt(BUDDY_SIZE_OF[mm][li].v, FromNat(a))])])])

FitsArena(sp, li) == FITS_ARENA[sp.M][sp.allocable_len][li]

\* the request passes validation and its buddy size exceeds the arena
ExceedsArena(sp, li) == BUDDY_SIZE_OF[sp.M][li].ok /\ ~FitsArena(sp, li)

\* the buddy sizes that fit an arena, as integers
BUDDY_LEN ==
    Word([mm \in CellLens |-> Word([li \in LayoutIds |->
            IF BUDDY_SIZE_OF[mm][li].ok /\ Fits(BUDDY_SIZE_OF[mm][li].v)
            THEN ToNat(BUDDY_SIZE_OF[mm][li].v) ELSE 0])])

BuddyLen(sp, li) == BUDDY_LEN[sp.M][li]

\* the tree as the initialiser writes it
InitialTree(sp) ==
    write_metadata(sp, [i \in 0 .. ((sp.allocable_len \div sp.M) * 2 - 1) |->
                          IF i = 0 THEN MUST_WRITE ELSE 0]).m

\* the nodes of the tree: every index but the unused 0
Nodes(mm) == DOMAIN mm \ { 0 }

SameNodes(m1, m2) == \A i \in Nodes(m1) : m1[i] = m2[i]

\* the node of the tree that stands for block b
NodeOf(sp, b) ==
    LET order == Log2(sp.allocable_len) - Log2(b.len)
    IN  2 ^ order + (b.ptr - ArenaBase(sp)) \div b.len

\* the threads inside the critical section
Inside == { t \in Threads : pc[t] = "locked" }

\* the step is an engine operation: it changes the tree or the blocks held,
\* or a call returns
EngineStep == m' # m \/ live' # live \/ out'.op # "none"

(***************************************************************************)
(* Properties                                                              *)
(***************************************************************************)
\* C1: after any sequence of allocate and deallocate calls, from one thread
\* or interleaved from several, the live blocks are pairwise disjoint: no
\* block is handed out twice and no two distinct live blocks share a byte.
C1_LiveDisjoint ==
    \A b1 \in LiveBlocks :
        /\ CopiesIn(b1, live) = 1
        /\ \A b2 \in LiveBlocks : b1 # b2 => ~Overlap(b1, b2)

\* three blocks of at least two sizes are live after a block was freed
C1_Witness ==
    /\ Cardinality(LiveBlocks) >= 3
    /\ \E b1, b2 \in LiveBlocks : b1.len # b2.len
    /\ out.op = "dealloc"
    /\ out.res = "Ok"

\* C2: a successful allocate(size, align) returns exactly
\* next_power_of_two(max(size, align, M)) bytes, inside the user-visible part
\* of the arena, starting at a multiple of align.
C2_ReturnedRange ==
    (out.op = "alloc" /\ out.res = "Ok") =>
        /\ LayoutFits(out.layout)
        /\ out.len = NextPow2(Max2(SizeOf(out.layout),
                                   Max2(AlignOf(out.layout), space.M)))
        /\ UserLo(space) <= out.ptr
        /\ out.ptr + out.len <= UserHi(space)
        /\ out.ptr % AlignOf(out.layout) = 0

\* a self-hosted arena returned a block that the alignment made larger than
\* the cell and the size
C2_Witness ==
    /\ out.op = "alloc"
    /\ out.res = "Ok"
    /\ SelfHosted(space)
    /\ AlignOf(out.layout) > SizeOf(out.layout)
    /\ out.len > space.M
    /\ out.len = AlignOf(out.layout)

\* C3: in every reachable state, a request that passes validation with a
\* buddy size b of at most the arena succeeds exactly when some block
\* [k*b, k*b+b) overlaps no live block and no self-hosted metadata, and
\* returns NoMoreSpace exactly when there is none.
C3_SucceedsIffFree ==
    \A li \in LayoutIds :
        FitsArena(space, li) =>
            LET r == InnerBuddy_alloc(space, m, li).res
            IN  IF FreeBlockExists(space, live, BuddyLen(space, li))
                THEN r = "Ok"
                ELSE r = "NoMoreSpace"

\* a request was refused with NoMoreSpace while a smaller block was free
C3_Witness ==
    /\ out.op = "alloc"
    /\ out.res = "NoMoreSpace"
    /\ FitsArena(space, out.layout)
    /\ FreeBlockExists(space, live, space.M)
    /\ ~FreeBlockExists(space, live, BuddyLen(space, out.layout))

\* C4 as stated: from any reachable state, a successful allocate followed at
\* once by deallocate of the returned pointer with the same layout leaves
\* every node of the tree as it was before the allocation.
C4_Original ==
    \A li \in LayoutIds :
        LET a == InnerBuddy_alloc(space, m, li)
        IN  a.res = "Ok" =>
                LET d == InnerBuddy_dealloc(space, a.m, a.ptr, li)
                IN  d.res = "Ok" /\ SameNodes(d.m, m)

\* C4: a successful allocate followed at once by deallocate of the returned
\* pointer with the same layout leaves every byte of the tree as the
\* allocation found it once check_metadata had run: unchanged when the tree
\* was written already, freshly written when this was the first call; with
\* external metadata a request for the whole arena marks node 1 and its
\* release puts node 1 back to 0.
C4_AllocFreeRestores ==
    \A li \in LayoutIds :
        LET a == InnerBuddy_alloc(space, m, li)
        IN  a.res = "Ok" =>
                LET d == InnerBuddy_dealloc(space, a.m, a.ptr, li)
                IN  /\ d.res = "Ok"
                    /\ d.m = check_metadata(space, m).m
                    /\ (~SelfHosted(space) /\ BuddyLen(space, li) = space.allocable_len)
                           => (a.m[FIRST_INDEX] >= OCCUPIED /\ d.m[FIRST_INDEX] = 0)

\* the whole arena of an allocator with external metadata was allocated in
\* one request and freed
C4_Witness ==
    /\ ~SelfHosted(space)
    /\ out.op = "dealloc"
    /\ out.res = "Ok"
    /\ BuddyLen(space, out.layout) = space.allocable_len
    /\ m[FIRST_INDEX] = 0
    /\ live = EmptyBag

\* C5: once every user allocation has been deallocated, in any order, the
\* tree is the tree the initialiser wrote, and a request for half the arena
\* succeeds at a multiple of its size (allocate(128) in the self-hosted
\* M = 64, 256-byte arena).
C5_FullyCoalesced ==
    (m[0] = WRITTEN /\ live = EmptyBag) =>
        /\ m = InitialTree(space)
        /\ \A li \in LayoutIds :
               BuddyLen(space, li) * 2 = space.allocable_len =>
                   LET a == InnerBuddy_alloc(space, m, li)
                   IN  /\ a.res = "Ok"
                       /\ a.len * 2 = space.allocable_len
                       /\ a.ptr % a.len = 0

\* the last block of the self-hosted M = 64 arena was just freed
C5_Witness ==
    /\ space.M = 64
    /\ SelfHosted(space)
    /\ m[0] = WRITTEN
    /\ live = EmptyBag
    /\ out.op = "dealloc"
    /\ out.res = "Ok"

\* C6: on a fresh allocator over an arena of MIN_BUDDY_NB cells that hosts
\* its own metadata (M = 64 with 256 bytes, M = 8 with 32 bytes), three
\* cell-sized allocations succeed with three disjoint blocks and the fourth
\* returns NoMoreSpace.
C6_ThreeCells ==
    (/\ m[0] = MUST_WRITE
     /\ SelfHosted(space)
     /\ space.allocable_len = space.M * MIN_BUDDY_NB) =>
        \A li \in LayoutIds :
            BuddyLen(space, li) = space.M =>
                LET a1 == InnerBuddy_alloc(space, m, li)
                    a2 == InnerBuddy_alloc(space, a1.m, li)
                    a3 == InnerBuddy_alloc(space, a2.m, li)
                    a4 == InnerBuddy_alloc(space, a3.m, li)
                    b1 == Block(a1.ptr, a1.len)
                    b2 == Block(a2.ptr, a2.len)
                    b3 == Block(a3.ptr, a3.len)
                IN  /\ a1.res = "Ok" /\ a2.res = "Ok" /\ a3.res = "Ok"
                    /\ a1.len = space.M /\ a2.len = space.M /\ a3.len = space.M
                    /\ ~Overlap(b1, b2) /\ ~Overlap(b1, b3) /\ ~Overlap(b2, b3)
                    /\ a4.res = "NoMoreSpace"

\* the smallest legal self-hosted arena holds three cells and refused a fourth
C6_Witness ==
    /\ SelfHosted(space)
    /\ space.M = MIN_CELL_LEN
    /\ space.allocable_len = space.M * MIN_BUDDY_NB
    /\ BagCardinality(live) = 3
    /\ \A b \in LiveBlocks : b.len = space.M
    /\ out.op = "alloc"
    /\ BuddyLen(space, out.layout) = space.M
    /\ out.res = "NoMoreSpace"

\* C7: for a layout that has an order in the arena, deallocate(ptr, layout)
\* succeeds when the node at 2^order + (ptr - base) * 2^order / A has the
\* bit 0x80 set and returns DoubleFreeOrCorruption when it has not; the same
\* deallocate repeated at once returns DoubleFreeOrCorruption.
C7_FreeIffMarked ==
    \A li \in LayoutIds : \A ptr \in UserPtrs(space) :
        FitsArena(space, li) =>
            LET order == Log2(space.allocable_len) - Log2(BuddyLen(space, li))
                index == 2 ^ order
                           + ((ptr - ArenaBase(space)) * 2 ^ order) \div space.allocable_len
                tree == check_metadata(space, m).m
                d == InnerBuddy_dealloc(space, m, ptr, li)
            IN  /\ IF tree[index] >= OCCUPIED
                   THEN d.res = "Ok"
                   ELSE d.res = "DoubleFreeOrCorruption" /\ d.m = tree
                /\ d.res = "Ok" =>
                       InnerBuddy_dealloc(space, d.m, ptr, li).res
                           = "DoubleFreeOrCorruption"

\* a deallocate was refused while blocks were live
C7_Witness ==
    /\ out.op = "dealloc"
    /\ out.res = "DoubleFreeOrCorruption"
    /\ live # EmptyBag

\* buddy_size_of on every request, per cell size: TooBigSize above the limit,
\* else (alignment supported) the smallest power of two >= s
BUDDY_SIZE_CONFORMS ==
    Word([mm \in CellLens |->
        \A li \in LayoutIds :
            LET s == RequestMax(mm, li)
                r == BUDDY_SIZE_OF[mm][li]
            IN  /\ REQUEST_TOO_BIG[mm][li] => r = Err("TooBigSize")
                /\ (~REQUEST_TOO_BIG[mm][li] /\ ~OVER_ALIGNED[li]) =>
                       (r.ok /\ SmallestPow2AtLeast(r.v, s))
                /\ (LAYOUTS[li].size = WZero /\ ~WGt(LAYOUTS[li].align, FromNat(mm))) =>
                       r = Ok(FromNat(mm))
                /\ (mm = 64 /\ LAYOUTS[li] = Layout(FromNat(65), FromNat(1))) =>
                       r = Ok(FromNat(128))])

\* C8: with s = max(size, align, M), buddy_size_of fails with TooBigSize when
\* s > WORD_MAX / MIN_BUDDY_NB + 1 and otherwise, for a supported alignment,
\* returns the smallest power of two >= s: size 0 gives M, size 65 with
\* M = 64 gives 128; a call with such an s returns TooBigSize.
C8_BuddySizeOf ==
    /\ BUDDY_SIZE_CONFORMS[space.M]
    /\ (out.op # "none" /\ REQUEST_TOO_BIG[space.M][out.layout]) =>
           out.res = "TooBigSize"
    /\ (out.op = "alloc" /\ out.res = "Ok") =>
           SmallestPow2AtLeast(FromNat(out.len), RequestMax(space.M, out.layout))

\* M = 64: allocate(65, 1) returned 128 bytes
C8_Witness ==
    /\ space.M = 64
    /\ out.op = "alloc"
    /\ out.res = "Ok"
    /\ LAYOUTS[out.layout] = Layout(FromNat(65), FromNat(1))
    /\ out.len = 128

\* C9 as stated: every request whose alignment exceeds MAX_SUPPORTED_ALIGN
\* fails with TooBigAlignment, whatever its size and the allocator state.
C9_Original ==
    \A li \in LayoutIds :
        OVER_ALIGNED[li] =>
            /\ InnerBuddy_alloc(space, m, li).res = "TooBigAlignment"
            /\ \A ptr \in UserPtrs(space) :
                   InnerBuddy_dealloc(space, m, ptr, li).res = "TooBigAlignment"

\* C9: in every allocator state a request whose alignment exceeds
\* MAX_SUPPORTED_ALIGN fails with TooBigAlignment when
\* max(size, align, M) <= WORD_MAX / MIN_BUDDY_NB + 1, and with TooBigSize
\* when it is larger.
C9_OverAligned ==
    \A li \in LayoutIds :
        OVER_ALIGNED[li] =>
            LET e == IF REQUEST_TOO_BIG[space.M][li]
                     THEN "TooBigSize" ELSE "TooBigAlignment"
            IN  /\ InnerBuddy_alloc(space, m, li).res = e
                /\ \A ptr \in UserPtrs(space) :
                       InnerBuddy_dealloc(space, m, ptr, li).res = e

\* an over-aligned allocate was refused while blocks were live
C9_Witness ==
    /\ out.op = "alloc"
    /\ OVER_ALIGNED[out.layout]
    /\ out.res = "TooBigAlignment"
    /\ live # EmptyBag

\* order_of on powers of two: log2 A - log2 b when b <= A, else CannotFit
ORDER_OF_POWERS ==
    \A i \in Exps : \A j \in Exps :
        Order_try_from(Pow2W(i), Pow2W(j))
            = IF i <= j THEN Ok(j - i) ELSE Err("CannotFit")

\* order_of on the requests of an arena
OrderOfRequests(sp) ==
    \A li \in LayoutIds :
        BUDDY_SIZE_OF[sp.M][li].ok =>
            ORDER_OF[sp.M][sp.allocable_len][li]
                = IF FitsArena(sp, li)
                  THEN Ok(Log2(sp.allocable_len) - Log2(BuddyLen(sp, li)))
                  ELSE Err("CannotFit")

\* C10 as stated: order_of is log2 A - log2 b when b <= A and CannotFit when
\* b > A; allocate and deallocate with b > A return CannotFit in every state
\* and leave every node of the tree as it was.
C10_Original ==
    /\ ORDER_OF_POWERS
    /\ OrderOfRequests(space)
    /\ \A li \in LayoutIds :
           ExceedsArena(space, li) =>
               /\ InnerBuddy_alloc(space, m, li).res = "CannotFit"
               /\ SameNodes(InnerBuddy_alloc(space, m, li).m, m)
               /\ \A ptr \in UserPtrs(space) :
                      /\ InnerBuddy_dealloc(space, m, ptr, li).res = "CannotFit"
                      /\ SameNodes(InnerBuddy_dealloc(space, m, ptr, li).m, m)

\* C10: order_of is log2 A - log2 b when b <= A and CannotFit when b > A;
\* allocate and deallocate with b > A return CannotFit in every state and
\* change nothing of a tree that is written; on a tree not yet written they
\* do what check_metadata does, write the initial tree, and no more.
C10_CannotFit ==
    /\ ORDER_OF_POWERS
    /\ OrderOfRequests(space)
    /\ \A li \in LayoutIds :
           ExceedsArena(space, li) =>
               /\ InnerBuddy_alloc(space, m, li).res = "CannotFit"
               /\ InnerBuddy_alloc(space, m, li).m = check_metadata(space, m).m
               /\ \A ptr \in UserPtrs(space) :
                      /\ InnerBuddy_dealloc(space, m, ptr, li).res = "CannotFit"
                      /\ InnerBuddy_dealloc(space, m, ptr, li).m
                             = check_metadata(space, m).m
    /\ m[0] = WRITTEN => check_metadata(space, m).m = m

\* a request larger than the arena was answered CannotFit while no cell of
\* the arena was free
C10_Witness ==
    /\ out.res = "CannotFit"
    /\ ExceedsArena(space, out.layout)
    /\ m[0] = WRITTEN
    /\ ~FreeBlockExists(space, live, space.M)

\* C11: with several threads calling allocate and deallocate on one shared
\* allocator, at most one thread is inside the critical section and it is the
\* one that holds the lock; every step that changes the tree or the blocks
\* held, or returns from a call, is taken by that thread, which leaves the
\* critical section with the lock free; and the result and the tree it leaves
\* are those of the engine operation run on the tree the previous holder
\* left, so the calls act one after the other in lock-acquisition order.
C11_Serialized ==
    /\ [](/\ Cardinality(Inside) <= 1
          /\ \A t \in Threads : pc[t] = "locked" <=> holder = t)
    /\ [][EngineStep =>
            \E t \in Threads :
                /\ Inside = { t }
                /\ holder = t
                /\ Inside' = {}
                /\ holder' = 0
                /\ out'.op = "alloc" =>
                       LET r == InnerBuddy_alloc(space, m, out'.layout)
                       IN  m' = r.m /\ out'.res = r.res /\ out'.ptr = r.ptr
                /\ out'.op = "dealloc" =>
                       \E ptr \in UserPtrs(space) :
                           LET r == InnerBuddy_dealloc(space, m, ptr, out'.layout)
                           IN  m' = r.m /\ out'.res = r.res]_vars

\* a thread other than the first is inside the critical section of an
\* allocator whose tree is written and that has blocks out
C11_Witness ==
    /\ \E t \in Threads : t # 1 /\ pc[t] = "locked" /\ holder = t
    /\ pc[1] = "idle"
    /\ m[0] = WRITTEN
    /\ BagCardinality(live) >= 2

\* C12: the tree is written exactly once per arena.  Until an operation has
\* run, m[0] is the 0x42 sentinel, no call has returned and no block is out;
\* the first operation, whichever thread makes it, leaves m[0] = 0xff and
\* answers as the engine does on the initial tree, whatever bytes the region
\* held; from then on m[0] stays 0xff, every operation acts on the tree as
\* the previous one left it, and the node of every block still out keeps its
\* occupied bit.
C12_WrittenOnce ==
    /\ [](/\ m[0] \in { MUST_WRITE, WRITTEN }
          /\ m[0] = MUST_WRITE => (live = EmptyBag /\ out.op = "none")
          /\ m[0] = WRITTEN =>
                 \A b \in LiveBlocks : IsMarked(m[NodeOf(space, b)]))
    /\ [][/\ EngineStep => m'[0] = WRITTEN
          /\ m[0] = WRITTEN => m'[0] = WRITTEN
          /\ (m[0] = MUST_WRITE /\ out'.op = "alloc") =>
                 LET r == alloc(space, InitialTree(space), out'.layout)
                 IN  m' = r.m /\ out'.res = r.res /\ out'.ptr = r.ptr
          /\ (m[0] = MUST_WRITE /\ out'.op = "dealloc") =>
                 \E ptr \in UserPtrs(space) :
                     LET r == dealloc(space, InitialTree(space), ptr, out'.layout)
                     IN  m' = r.m /\ out'.res = r.res
          /\ (m[0] = WRITTEN /\ out'.op = "alloc") =>
                 LET r == alloc(space, m, out'.layout)
                 IN  m' = r.m /\ out'.res = r.res /\ out'.ptr = r.ptr
          /\ (m[0] = WRITTEN /\ out'.op = "dealloc") =>
                 \E ptr \in UserPtrs(space) :
                     LET r == dealloc(space, m, ptr, out'.layout)
                     IN  m' = r.m /\ out'.res = r.res]_vars

\* an allocation succeeded on a written tree while two earlier blocks were
\* still out
C12_Witness ==
    /\ m[0] = WRITTEN
    /\ out.op = "alloc"
    /\ out.res = "Ok"
    /\ BagCardinality(live) >= 3

\* the loops of allocate for request li on tree tr take at most MAX_ORDER
\* turns each
AllocStepsBounded(sp, tr, li) ==
    LET order == ORDER_OF[sp.M][sp.allocable_len][li]
    IN  (order.ok /\ order.v >= tr[FIRST_INDEX]) =>
            LET index == Descend(tr, FIRST_INDEX, 0, order.v)
                marked == [tr EXCEPT ![index] = (OCCUPIED + MaxOrder(sp) + 1) % BYTE_MOD]
            IN  /\ DescendSteps(tr, FIRST_INDEX, 0, order.v) <= MaxOrder(sp)
                /\ ParentSteps(marked, index, order.v, "Allocate") <= MaxOrder(sp)

\* the loop of deallocate for pointer ptr and request li on tree tr takes at
\* most MAX_ORDER turns
DeallocStepsBounded(sp, tr, ptr, li) ==
    LET d == dealloc(sp, tr, ptr, li)
    IN  d.res = "Ok" =>
            ParentSteps([tr EXCEPT ![d.index] = d.order], d.index, d.order,
                        "Deallocate") <= MaxOrder(sp)

\* C13: every allocate or deallocate call ends: in every reachable state the
\* descent and the report to the parents of any call take at most MAX_ORDER
\* turns; the call leaves the critical section with the lock free whether it
\* succeeded or returned an error, so after an error the lock is free for the
\* next caller; and with a fair lock every thread waiting for the lock gets
\* inside, and every thread inside comes out.
C13_TerminatesAndReleases ==
    /\ [](/\ \A li \in LayoutIds :
                 AllocStepsBounded(space, check_metadata(space, m).m, li)
          /\ \A li \in LayoutIds : \A ptr \in UserPtrs(space) :
                 DeallocStepsBounded(space, check_metadata(space, m).m, ptr, li)
          /\ out.res \notin { "Ok", "none" } => holder = 0)
    /\ [][EngineStep =>
            \E t \in Threads :
                pc[t] = "locked" /\ pc'[t] = "idle" /\ holder' = 0]_vars
    /\ \A t \in Threads :
           /\ (pc[t] = "idle" /\ holder # 0) ~> (pc[t] = "locked")
           /\ (pc[t] = "locked") ~> (pc[t] = "idle")

\* a call returned an error while blocks were out, and the lock is free
C13_Witness ==
    /\ out.op = "dealloc"
    /\ out.res = "DoubleFreeOrCorruption"
    /\ holder = 0
    /\ Inside = {}
    /\ BagCardinality(live) >= 2

\* the errors allocate reports
AllocErrors == { "CannotFit", "TooBigSize", "TooBigAlignment", "NoMoreSpace" }

\* C14: on the GlobalAlloc facade a call of alloc for which the engine
\* reports CannotFit, TooBigSize, TooBigAlignment or NoMoreSpace hands no
\* block to its caller and ends in the abort of the process (no thread runs
\* afterwards), and a call of dealloc for which the engine reports any error
\* never returns: its thread ends panicked or the process ends aborted, and a
\* thread that ended so never runs again.
C14_InfallibleFacade ==
    /\ [](/\ (out.op = "alloc" /\ out.res \in AllocErrors) =>
                 /\ out.ptr = 0 /\ out.len = 0
                 /\ pc = Aborted
          /\ (out.op = "dealloc" /\ out.res # "Ok") =>
                 \E t \in Threads : pc[t] \in FatalOutcomes)
    /\ [][/\ \A t \in Threads :
               /\ (/\ pc[t] = "locked"
                   /\ out'.op = "alloc"
                   /\ \E li \in LayoutIds :
                          /\ out'.layout = li
                          /\ InnerBuddy_alloc(space, m, li).res \in AllocErrors)
                      => (pc'[t] = "aborted" /\ live' = live /\ out'.res \in AllocErrors)
               /\ (pc[t] = "locked" /\ out'.op = "dealloc" /\ out'.res # "Ok")
                      => (pc'[t] \in FatalOutcomes /\ live' = live)
               /\ pc[t] \in FatalOutcomes => pc'[t] \in FatalOutcomes
          /\ pc = Aborted => UNCHANGED vars]_vars

\* with a block out, alloc asked for more than the arena still holds and the
\* process was aborted
C14_Witness ==
    /\ out.op = "alloc"
    /\ out.res = "NoMoreSpace"
    /\ pc = Aborted
    /\ BagCardinality(live) >= 1

\* a failed dealloc unwound out of the facade with the Mutex poisoned
C14_WitnessDealloc ==
    /\ out.op = "dealloc"
    /\ out.res = "DoubleFreeOrCorruption"
    /\ holder = POISONED
    /\ \E t \in Threads : pc[t] = "panicked"

\* C15: on the facade with an error hook, a call whose engine method fails
\* releases the lock, then invokes the installed hook once with the engine's
\* error value, then returns the error: the hook runs only for a thread that
\* holds an error and no lock, a failed call returns only after its one
\* invocation, and a successful call returns with the hook not invoked.
C15_HookOnceAfterRelease ==
    /\ [](\A t \in Threads :
              /\ pc[t] \in { "failed", "returning" } =>
                     (holder # t /\ hook.err[t] \notin { "none", "Ok" })
              /\ pc[t] \in { "idle", "locked", "failed" } => hook.calls[t] = << >>
              /\ pc[t] = "returning" =>
                     hook.calls[t] = IF hook.installed THEN << hook.err[t] >> ELSE << >>)
    /\ [][\A t \in Threads :
              /\ (pc[t] = "locked" /\ pc'[t] # "locked") =>
                     /\ holder' = 0
                     /\ hook'.calls[t] = << >>
                     /\ pc'[t] = IF out'.res = "Ok" THEN "idle" ELSE "failed"
                     /\ out'.res # "Ok" =>
                            /\ hook'.err[t] = out'.res
                            /\ \/ /\ out'.op = "alloc"
                                  /\ out'.res = InnerBuddy_alloc(space, m, out'.layout).res
                               \/ /\ out'.op = "dealloc"
                                  /\ \E ptr \in UserPtrs(space) :
                                         out'.res
                                             = InnerBuddy_dealloc(space, m, ptr,
                                                                  out'.layout).res
              /\ hook'.calls[t] # hook.calls[t] /\ hook'.calls[t] # << >> =>
                     /\ hook.installed
                     /\ pc[t] = "failed" /\ holder # t
                     /\ hook'.calls[t] = << hook.err[t] >>
              /\ (pc[t] # "idle" /\ pc'[t] = "idle") =>
                     \/ pc[t] = "locked" /\ out'.res = "Ok"
                     \/ /\ pc[t] = "returning"
                        /\ hook.installed => hook.calls[t] = << hook.err[t] >>]_vars

\* the hook has run for a failed allocate that is about to return its error,
\* while the other thread is already inside the critical section
C15_Witness ==
    \E t \in Threads : \E u \in Threads \ { t } :
        /\ hook.installed
        /\ pc[t] = "returning"
        /\ hook.calls[t] = << "NoMoreSpace" >>
        /\ pc[u] = "locked"
        /\ holder = u

\* w is a power of two
IsPow2(w) == Cardinality({ i \in BitIdx : w[i] = 1 }) = 1

\* what construction requires of the cell size, the region and the external
\* metadata buffer
ConstructionConditions(mm, len, addr, ref_m) ==
    /\ ~WLt(mm, FromNat(MIN_CELL_LEN))
    /\ IsPow2(mm)
    /\ ~WGt(mm, WAdd(WDiv(USIZE_MAX, MIN_BUDDY_NB), WOne))
    \* WORD_MAX, or a power of two of which a MIN_BUDDY_NB-th is at least M
    /\ \/ len = USIZE_MAX
       \/ IsPow2(len) /\ ~WLt(WDiv(len, MIN_BUDDY_NB), mm)
    \* the bits of the base below min(len, MAX_SUPPORTED_ALIGN) are zero
    /\ \A i \in BitIdx :
           (/\ WLt(Pow2W(i), len)
            /\ WLt(Pow2W(i), FromNat(MAX_SUPPORTED_ALIGN))) => addr[i] = 0
    \* bit i of 2 * len / M is bit i - 1 + log2(M) of len
    /\ ref_m.some =>
           \A i \in BitIdx : \A k \in BitIdx :
               mm[k] = 1 =>
                   ref_m.len[i] = IF i >= 1 /\ i - 1 + k < WordBits
                                  THEN len[i - 1 + k] ELSE 0

\* C16: construction from a byte region succeeds exactly when M >=
\* MIN_CELL_LEN, M is a power of two, M <= WORD_MAX / MIN_BUDDY_NB + 1, the
\* length of the region is WORD_MAX or a power of two >= M * MIN_BUDDY_NB, the
\* base is aligned to min(length, MAX_SUPPORTED_ALIGN) and an external
\* metadata buffer, when given, has length 2 * length / M; otherwise it
\* panics.
C16_ConstructionChecked ==
    out.op = "construct" =>
        (out.res = "Ok" <=> ConstructionConditions(space.M, space.len, space.addr,
                                                   space.ref_m))

\* the same, for every construction but one where M * MIN_BUDDY_NB wraps
C16_UnlessProductWraps ==
    (out.op = "construct"
        /\ ~(space.build = "release" /\ MulOverflows(space.M, MIN_BUDDY_NB))) =>
        (out.res = "Ok" <=> ConstructionConditions(space.M, space.len, space.addr,
                                                   space.ref_m))

\* constructions that succeeded, with and without an external buffer, and
\* constructions that panicked
C16_Witness ==
    /\ out.op = "construct"
    /\ out.res = "Ok"
    /\ space.ref_m.some
    /\ space.len = USIZE_MAX

\* C17: for a non-zero word v no larger than the largest power of two of the
\* word, round_up_2(v) is a power of two, is at least v, and its half is
\* below v (it is the smallest such power); it is v when v is a power of two.
C17_RoundUp2 ==
    (out.op = "round_up_2" /\ ~WGt(space.v, Pow2W(space.W - 1))) =>
        /\ out.res.ok
        /\ IsPow2(out.res.v)
        /\ ~WLt(out.res.v, space.v)
        /\ WLt(Shr(out.res.v, 1), space.v)
        /\ IsPow2(space.v) => out.res.v = space.v

\* round_up_2 answered 2^41 for 2^40 + 1 on the 64-bit target
C17_Witness ==
    /\ out.op = "round_up_2"
    /\ space.W = WordBits
    /\ space.v = WAdd(Pow2W(40), WOne)
    /\ out.res = Ok(Pow2W(41))

\* C18: for a non-zero word v of 32 or 64 bits, trailing_zero_right(v) is
\* the number of zero bits below the lowest set bit of v, a value in
\* 0 .. W - 1.
C18_TrailingZeros ==
    out.op = "trailing_zero_right" =>
        /\ out.res \in 0 .. (space.W - 1)
        /\ space.v[out.res] = 1
        /\ \A i \in 0 .. (out.res - 1) : space.v[i] = 0

\* trailing_zero_right answered 37 for a word of two set bits, 37 and 63
C18_Witness ==
    /\ out.op = "trailing_zero_right"
    /\ space.W = WordBits
    /\ space.v = WOr(Pow2W(37), Pow2W(63))
    /\ out.res = 37

\* the nodes of the written tree that are marked occupied
Occupied(tree) == { i \in DOMAIN tree : i >= FIRST_INDEX /\ IsMarked(tree[i]) }

\* C19: a call of reserve or unreserve never reports success: it ends in the
\* panic of unimplemented!(), which its thread does not survive; the blocks
\* callers hold stay theirs and the occupied nodes of the tree, as the engine
\* reads them, are the same after the call as before it.
C19_ReservedUnimplemented ==
    /\ [](out.op \in { "reserve", "unreserve" } =>
              /\ out.res = "panic"
              /\ \E t \in Threads : pc[t] = "panicked")
    /\ [][\A t \in Threads :
              (pc[t] = "locked" /\ pc'[t] # "locked"
                  /\ out'.op \in { "reserve", "unreserve" }) =>
                  /\ out'.res = "panic"
                  /\ pc'[t] = "panicked"
                  /\ live' = live
                  /\ Occupied(check_metadata(space, m').m)
                         = Occupied(check_metadata(space, m).m)
                  /\ check_metadata(space, m').m = check_metadata(space, m).m]_vars

\* reserve was called with blocks out and panicked
C19_Witness ==
    /\ out.op = "reserve"
    /\ out.res = "panic"
    /\ BagCardinality(live) >= 2
    /\ \E t \in Threads : pc[t] = "panicked"

\* the order of node i: its depth in the tree
RECURSIVE Depth(_)
Depth(i) == IF i <= FIRST_INDEX THEN 0 ELSE 1 + Depth(i \div 2)

\* the nodes of the tree of the space
TreeNodes(sp) == FIRST_INDEX .. (2 ^ (MaxOrder(sp) + 1) - 1)

\* node j lies in the subtree rooted at node i
RECURSIVE InSubtree(_, _)
InSubtree(j, i) == j = i \/ (j > i /\ InSubtree(j \div 2, i))

\* node i lies below an occupied node
BelowOccupied(sp, tree, i) ==
    \E a \in TreeNodes(sp) : a # i /\ InSubtree(i, a) /\ IsMarked(tree[a])

\* the buddy of node j is completely free: no occupied node lies in its
\* subtree, and it lies in the subtree of none
CompletelyFree(sp, tree, j) ==
    \A k \in TreeNodes(sp) :
        (InSubtree(k, j) \/ InSubtree(j, k)) => ~IsMarked(tree[k])

\* the smallest order of a completely free buddy in the subtree of node i,
\* MAX_ORDER + 1 when it holds none
SmallestFreeOrder(sp, tree, i) ==
    LET orders == { Depth(j) : j \in { k \in TreeNodes(sp) :
                                         InSubtree(k, i) /\ CompletelyFree(sp, tree, k) } }
    IN  IF orders = {} THEN MaxOrder(sp) + 1
        ELSE CHOOSE o \in orders : \A p \in orders : o <= p

\* C20: once the tree is written, after every operation, every node whose
\* byte has the high bit clear and that lies below no occupied node stores
\* the smallest order of a completely free buddy of its subtree, and
\* MAX_ORDER + 1 when its subtree holds none.
C20_SmallestFreeOrder ==
    m[0] = WRITTEN =>
        \A i \in TreeNodes(space) :
            (~IsMarked(m[i]) /\ ~BelowOccupied(space, m, i)) =>
                m[i] = SmallestFreeOrder(space, m, i)

\* after a deallocate, one free node holds no free buddy (it stores
\* MAX_ORDER + 1) and another holds one smaller than itself
C20_Witness ==
    /\ m[0] = WRITTEN
    /\ out.op = "dealloc"
    /\ out.res = "Ok"
    /\ \E i \in TreeNodes(space) :
           /\ ~IsMarked(m[i]) /\ ~BelowOccupied(space, m, i)
           /\ m[i] = MaxOrder(space) + 1
    /\ \E j \in TreeNodes(space) :
           /\ ~IsMarked(m[j]) /\ ~BelowOccupied(space, m, j)
           /\ Depth(j) < m[j] /\ m[j] <= MaxOrder(space)

\* the nodes of the tree that have children
InternalNodes(sp) == { i \in TreeNodes(sp) : 2 * i + 1 \in TreeNodes(sp) }

\* C21: once the tree is written, after every call, every internal node i
\* that is not occupied stores the minimum of the low seven bits of its two
\* children, except when both children store depth(i) + 1: then it stores
\* depth(i).
C21_ParentIsMinOrCoalesced ==
    m[0] = WRITTEN =>
        \A i \in InternalNodes(space) :
            ~IsMarked(m[i]) =>
                IF m[2 * i] = Depth(i) + 1 /\ m[2 * i + 1] = Depth(i) + 1
                THEN m[i] = Depth(i)
                ELSE Low7(m[i]) = Min2(Low7(m[2 * i]), Low7(m[2 * i + 1]))

\* after a deallocate, one free internal node has an occupied child and
\* stores its free child's value, and another has both children free again
\* while blocks are still out
C21_Witness ==
    /\ m[0] = WRITTEN
    /\ out.op = "dealloc" /\ out.res = "Ok"
    /\ BagCardinality(live) >= 2
    /\ \E i \in InternalNodes(space) :
           /\ ~IsMarked(m[i])
           /\ IsMarked(m[2 * i]) /\ ~IsMarked(m[2 * i + 1])
           /\ m[i] = m[2 * i + 1]
    /\ \E j \in InternalNodes(space) :
           /\ ~IsMarked(m[j]) /\ ~BelowOccupied(space, m, j)
           /\ m[j] = Depth(j) /\ m[2 * j] = Depth(j) + 1 /\ m[2 * j + 1] = Depth(j) + 1

\* C22 as stated: the root byte is a value in 0 .. MAX_ORDER, or 0xff, or has
\* the high bit set.
C22_Original ==
    m[0] = WRITTEN =>
        \/ m[FIRST_INDEX] \in 0 .. MaxOrder(space)
        \/ m[FIRST_INDEX] = WRITTEN
        \/ IsMarked(m[FIRST_INDEX])

\* C22: once the tree is written, after every call, the root byte is a value
\* in 0 .. MAX_ORDER + 1, or 0xff, or has the high bit set; it is
\* MAX_ORDER + 1 exactly when the root is not occupied and no node of the
\* tree is completely free, as when the arena is filled with blocks smaller
\* than itself.
C22_RootValues ==
    m[0] = WRITTEN =>
        /\ \/ m[FIRST_INDEX] \in 0 .. (MaxOrder(space) + 1)
           \/ m[FIRST_INDEX] = WRITTEN
           \/ IsMarked(m[FIRST_INDEX])
        /\ m[FIRST_INDEX] = MaxOrder(space) + 1 <=>
               /\ ~IsMarked(m[FIRST_INDEX])
               /\ \A j \in TreeNodes(space) : ~CompletelyFree(space, m, j)

\* the arena is filled with blocks smaller than itself and the root stores
\* MAX_ORDER + 1
C22_Witness ==
    /\ m[0] = WRITTEN
    /\ m[FIRST_INDEX] = MaxOrder(space) + 1
    /\ BagCardinality(live) >= 2
    /\ out.op = "alloc" /\ out.res = "Ok"

\* the node of the chunk that covers self-hosted metadata: the first node
\* at the depth of a chunk of max(2 * A / M, M) bytes
MetadataNode(sp) ==
    2 ^ ENGINE_ORDER_OF[Max2((2 ^ MaxOrder(sp)) * 2, sp.M)][sp.allocable_len].v

\* the subtree of node i is out as one chunk: the block of node i is held by
\* a caller (or is the chunk of self-hosted metadata), and no other node on
\* a path through i is occupied
OneChunk(sp, tree, i) ==
    /\ \/ NodeBlock(sp, i, Depth(i)) \in LiveBlocks
       \/ SelfHosted(sp) /\ i = MetadataNode(sp)
    /\ \A k \in TreeNodes(sp) :
           (k # i /\ (InSubtree(k, i) \/ InSubtree(i, k))) => ~IsMarked(tree[k])

\* C23 as stated: an occupied node i stores 0x80 | k with k - 1 the depth of
\* node i, the order at which its chunk was allocated.
C23_Original ==
    m[0] = WRITTEN =>
        \A i \in TreeNodes(space) :
            IsMarked(m[i]) =>
                /\ OneChunk(space, m, i)
                /\ Low7(m[i]) - 1 = Depth(i)

\* C23: once the tree is written, after every call, an occupied node i
\* stores 0x80 | k where k - 1 is MAX_ORDER whatever the depth of i; the
\* subtree of i is out as one chunk, the block of node i at the order
\* depth(i).
C23_OccupiedByte ==
    m[0] = WRITTEN =>
        \A i \in TreeNodes(space) :
            IsMarked(m[i]) =>
                /\ OneChunk(space, m, i)
                /\ m[i] = OCCUPIED + Low7(m[i])
                /\ Low7(m[i]) - 1 = MaxOrder(space)

\* a chunk allocated above the leaves and a leaf chunk are out together
C23_Witness ==
    /\ m[0] = WRITTEN
    /\ out.op = "alloc" /\ out.res = "Ok"
    /\ \E i, j \in TreeNodes(space) :
           /\ IsMarked(m[i]) /\ Depth(i) < MaxOrder(space)
           /\ NodeBlock(space, i, Depth(i)) \in LiveBlocks
           /\ IsMarked(m[j]) /\ Depth(j) = MaxOrder(space)
           /\ NodeBlock(space, j, Depth(j)) \in LiveBlocks

Untouched == CHOOSE g \in Garbage : g # 0

\* the indices of a buffer of twice the size of the tree that the loop of
\* write_metadata writes
WrittenIndices(sp) ==
    LET bytes_needed == (2 ^ MaxOrder(sp)) * 2
        buffer == [i \in 0 .. (2 * bytes_needed - 1) |-> Untouched]
        written == WriteOrders(buffer, 0, 2, 0, bytes_needed)
    IN  { i \in DOMAIN buffer : written[i] # Untouched }

\* C25: when the first operation on an arena with external metadata returns
\* without a block, it leaves at every index i from 1 to 2 * A / M - 1 the
\* depth of node i, floor(log2(i)), whatever the bytes held before; the loop
\* writes exactly the 2 * 2^MAX_ORDER = 2 * A / M bytes of the tree.
C25_DepthsWritten ==
    [][(m[0] = MUST_WRITE /\ ~SelfHosted(space) /\ EngineStep /\ out'.res # "Ok") =>
           /\ \A i \in 1 .. (2 * (space.allocable_len \div space.M) - 1) :
                  /\ i \in DOMAIN m'
                  /\ m'[i] = Depth(i)
                  /\ 2 ^ m'[i] <= i /\ i < 2 ^ (m'[i] + 1)
           /\ \A i \in TreeNodes(space) :
                  Depth(i) = MaxOrder(space) <=> 2 * i \notin DOMAIN m'
           /\ Cardinality(WrittenIndices(space)) = 2 * 2 ^ MaxOrder(space)
           /\ WrittenIndices(space) = DOMAIN m']_vars

\* the first call on an arena with external metadata has returned an error,
\* and the tree has at least three levels
C25_Witness ==
    /\ ~SelfHosted(space)
    /\ out.op # "none" /\ out.res # "Ok"
    /\ live = EmptyBag
    /\ m[0] = WRITTEN
    /\ MaxOrder(space) >= 2
    /\ \A i \in TreeNodes(space) : m[i] = Depth(i)

\* the chunk of max(2 * A / M, M) bytes at offset 0 of the arena
MetadataChunk(sp) ==
    Block(ArenaBase(sp), Max2(2 * (sp.allocable_len \div sp.M), sp.M))

\* C26: on an arena that hosts its metadata, once the tree is written, after
\* every call (whatever pointers were passed to deallocate), the node of the
\* chunk of max(2 * A / M, M) bytes at offset 0 is occupied, the chunk covers
\* the bytes of m, and no block a caller holds overlaps it.
C26_MetadataChunkKept ==
    (SelfHosted(space) /\ m[0] = WRITTEN) =>
        LET chunk == MetadataChunk(space)
            node == NodeOf(space, chunk)
        IN  /\ node \in TreeNodes(space)
            /\ node = 2 ^ Depth(node)
            /\ IsMarked(m[node])
            /\ chunk.ptr = space.m_addr
            /\ space.m_len <= chunk.len
            /\ Cardinality(DOMAIN m) <= chunk.len
            /\ \A b \in LiveBlocks :
                   /\ ~Overlap(b, chunk)
                   /\ b.ptr >= space.m_addr + Cardinality(DOMAIN m)
                   /\ NodeOf(space, b) # node

\* blocks were given out and one was taken back on an arena whose metadata
\* chunk is larger than a cell, and a block is still out
C26_Witness ==
    /\ SelfHosted(space)
    /\ m[0] = WRITTEN
    /\ MetadataChunk(space).len > space.M
    /\ out.op = "dealloc" /\ out.res = "Ok"
    /\ live # EmptyBag
    /\ IsMarked(m[NodeOf(space, MetadataChunk(space))])

\* the tree an operation starts from: the one the initialiser writes when
\* none is written yet
TreeBefore == IF m[0] = MUST_WRITE THEN InitialTree(space) ELSE m

\* the nodes of depth o whose buddy is completely free
FreeAtOrder(sp, tree, o) ==
    { j \in TreeNodes(sp) : Depth(j) = o /\ CompletelyFree(sp, tree, j) }

\* C27: a successful allocation of order o marks a node of depth o reached
\* from the root by taking, at every node on the way, the left child exactly
\* when the left child's byte is <= o; that node is the first of the
\* completely free nodes of depth o, and the block returned is the one of
\* lowest address among the completely free aligned blocks of size A / 2^o.
C27_LowestFreeBlock ==
    [][(out'.op = "alloc" /\ out'.res = "Ok") =>
           LET o == Log2(space.allocable_len) - Log2(out'.len)
               b == Block(out'.ptr, out'.len)
               i == NodeOf(space, b)
               free == FreeAtOrder(space, TreeBefore, o)
           IN  /\ Depth(i) = o
               /\ ~IsMarked(TreeBefore[i]) /\ IsMarked(m'[i])
               /\ \A a \in TreeNodes(space) :
                      (a # i /\ InSubtree(i, a)) =>
                          (InSubtree(i, 2 * a) <=> TreeBefore[2 * a] <= o)
               /\ i \in free
               /\ \A j \in free :
                      /\ i <= j
                      /\ b.ptr <= NodeBlock(space, j, o).ptr]_vars

\* an allocation returned a block that is neither the first of its size in
\* the arena nor the last free one: a block of the same size is out below
\* it and another is free above it
C27_Witness ==
    /\ out.op = "alloc" /\ out.res = "Ok"
    /\ Block(out.ptr, out.len) \in LiveBlocks
    /\ \E b \in LiveBlocks : b.len = out.len /\ b.ptr < out.ptr
    /\ \E j \in FreeAtOrder(space, m, Log2(space.allocable_len) - Log2(out.len)) :
           NodeBlock(space, j, Depth(j)).ptr > out.ptr

\* node j is a free buddy: completely free, and not part of a larger
\* completely free block
FreeBuddy(sp, tree, j) ==
    /\ CompletelyFree(sp, tree, j)
    /\ j # FIRST_INDEX => ~CompletelyFree(sp, tree, j \div 2)

\* the free buddies of the tree that can hold a block of order o
SatisfyingBuddies(sp, tree, o) ==
    { j \in TreeNodes(sp) : Depth(j) <= o /\ FreeBuddy(sp, tree, j) }

\* the order and the node of the block an allocate has just returned
ReturnedOrder == Log2(space.allocable_len) - Log2(out'.len)

ReturnedNode == NodeOf(space, Block(out'.ptr, out'.len))

Ancestors(sp, i) == { a \in TreeNodes(sp) : a # i /\ InSubtree(i, a) }

\* C29 as stated: a successful allocation strictly increases the byte of
\* every ancestor of the node it marks, and a successful deallocation
\* increases the byte of no node.
C29_Original ==
    [][/\ (out'.op = "alloc" /\ out'.res = "Ok") =>
              \A a \in Ancestors(space, ReturnedNode) : m'[a] > TreeBefore[a]
       /\ (out'.op = "dealloc" /\ out'.res = "Ok") =>
              \A k \in TreeNodes(space) : m'[k] <= TreeBefore[k]]_vars

\* C29: a successful allocation strictly increases the byte of the node it
\* marks and of that node's parent, decreases the byte of no node, changes
\* no node off the path to the root, and once an ancestor keeps its byte
\* the ancestors above keep theirs; a successful deallocation increases the
\* byte of no node and decreases at least one.
C29_Monotone ==
    [][/\ (out'.op = "alloc" /\ out'.res = "Ok") =>
              /\ m'[ReturnedNode] > TreeBefore[ReturnedNode]
              /\ ReturnedNode # FIRST_INDEX =>
                     m'[ReturnedNode \div 2] > TreeBefore[ReturnedNode \div 2]
              /\ \A k \in TreeNodes(space) :
                     /\ m'[k] >= TreeBefore[k]
                     /\ m'[k] # TreeBefore[k] => InSubtree(ReturnedNode, k)
              /\ \A a \in Ancestors(space, ReturnedNode) :
                     (a # FIRST_INDEX /\ m'[a] = TreeBefore[a]) =>
                         m'[a \div 2] = TreeBefore[a \div 2]
       /\ (out'.op = "dealloc" /\ out'.res = "Ok") =>
              /\ \A k \in TreeNodes(space) : m'[k] <= TreeBefore[k]
              /\ \E k \in TreeNodes(space) : m'[k] < TreeBefore[k]]_vars

\* an allocation has marked a node whose sibling was occupied and whose
\* parent has a completely free sibling: the parent's parent keeps the order
\* of that free sibling
C29_Witness ==
    /\ out.op = "alloc" /\ out.res = "Ok"
    /\ m[0] = WRITTEN
    /\ LET i == NodeOf(space, Block(out.ptr, out.len))
           sibling == IF i % 2 = 0 THEN i + 1 ELSE i - 1
           parent == i \div 2
           uncle == IF parent % 2 = 0 THEN parent + 1 ELSE parent - 1
       IN  /\ Depth(i) >= 2
           /\ IsMarked(m[i]) /\ IsMarked(m[sibling])
           /\ m[parent] = MaxOrder(space) + 1
           /\ CompletelyFree(space, m, uncle)
           /\ m[parent \div 2] = Depth(uncle)

\* propagation that recomputes every ancestor of node index up to the root
RECURSIVE PropagateToRoot(_, _, _, _)
PropagateToRoot(tree, index, order, op) ==
    IF index > FIRST_INDEX
    THEN LET parent == index \div 2
             least == Min2(Low7(tree[2 * parent]), Low7(tree[2 * parent + 1]))
             value == IF /\ op = "Deallocate"
                         /\ tree[2 * parent] = order
                         /\ tree[2 * parent + 1] = order
                      THEN order - 1
                      ELSE least
         IN  PropagateToRoot([tree EXCEPT ![parent] = value], parent, order - 1, op)
    ELSE tree

\* the node a deallocate has just freed
FreedNode == CHOOSE k \in TreeNodes(space) : IsMarked(m[k]) /\ ~IsMarked(m'[k])

\* C30: after every successful allocation and deallocation the tree is the
\* one obtained by marking (or freeing) the node and recomputing every
\* ancestor up to the root: stopping at the first ancestor that keeps its
\* value loses nothing.
C30_EarlyStopSameTree ==
    [][/\ (out'.op = "alloc" /\ out'.res = "Ok") =>
              SameNodes(m', PropagateToRoot(
                                [TreeBefore EXCEPT ![ReturnedNode] = m'[ReturnedNode]],
                                ReturnedNode, ReturnedOrder, "Allocate"))
       /\ (out'.op = "dealloc" /\ out'.res = "Ok") =>
              /\ \E k \in TreeNodes(space) : IsMarked(m[k]) /\ ~IsMarked(m'[k])
              /\ SameNodes(m', PropagateToRoot(
                                   [m EXCEPT ![FreedNode] = m'[FreedNode]],
                                   FreedNode, Depth(FreedNode), "Deallocate"))]_vars

\* an allocation has marked a node whose sibling was occupied and whose
\* parent has a sibling that is partly free: the propagation stopped below
\* the root
C30_Witness ==
    /\ out.op = "alloc" /\ out.res = "Ok"
    /\ m[0] = WRITTEN
    /\ LET i == NodeOf(space, Block(out.ptr, out.len))
           sibling == IF i % 2 = 0 THEN i + 1 ELSE i - 1
           parent == i \div 2
           uncle == IF parent % 2 = 0 THEN parent + 1 ELSE parent - 1
       IN  /\ Depth(i) >= 2
           /\ IsMarked(m[i]) /\ IsMarked(m[sibling])
           /\ ~IsMarked(m[uncle]) /\ ~CompletelyFree(space, m, uncle)
           /\ m[uncle] <= MaxOrder(space)
           /\ m[parent \div 2] = m[uncle]

\* the node an allocate has just marked
MarkedNode ==
    CHOOSE k \in TreeNodes(space) : ~IsMarked(TreeBefore[k]) /\ IsMarked(m'[k])

\* C31: every successful allocation marks one node i, of depth o, and returns
\* the pointer at arena offset (A / 2^o) * (i mod 2^o); deallocate, given that
\* pointer and the same layout, computes the index i and succeeds, with
\* metadata outside the arena and inside it.
C31_DeallocFindsNode ==
    [][(out'.op = "alloc" /\ out'.res = "Ok") =>
           /\ \E k \in TreeNodes(space) : ~IsMarked(TreeBefore[k]) /\ IsMarked(m'[k])
           /\ LET i == MarkedNode
                  o == Depth(i)
                  back == dealloc(space, m', out'.ptr, out'.layout)
              IN  /\ out'.ptr - ArenaBase(space) =
                         (space.allocable_len \div 2 ^ o) * (i % 2 ^ o)
                  /\ back.res = "Ok"
                  /\ back.order = o
                  /\ back.index = i
                  /\ 2 ^ o + ((out'.ptr - ArenaBase(space)) * 2 ^ o)
                                 \div space.allocable_len = i]_vars

\* an arena that hosts its metadata has returned a block that is not the
\* first of its order, and another block is out
C31_Witness ==
    /\ SelfHosted(space)
    /\ out.op = "alloc" /\ out.res = "Ok"
    /\ BagCardinality(live) >= 2
    /\ LET i == NodeOf(space, Block(out.ptr, out.len))
       IN  /\ IsMarked(m[i])
           /\ i # 2 ^ Depth(i) + 1
           /\ i % 2 = 1
           /\ Depth(i) < MaxOrder(space)

(***************************************************************************)
(* The engine on an arena of usize::MAX bytes: lengths, offsets and        *)
(* addresses are words; the tree is small because the cells are large      *)
(***************************************************************************)
\* the cell sizes M of the arenas of usize::MAX bytes: the two largest
\* check::<M> accepts, with trees of 8 and 16 bytes
WholeCells == { Pow2W(WordBits - 3), Pow2W(WordBits - 2) }

\* the Layouts callers pass on these arenas
WholeLayouts ==
    { Layout(FromNat(1), FromNat(1)),
      Layout(Pow2W(WordBits - 3), FromNat(MAX_SUPPORTED_ALIGN)),
      Layout(WAdd(Pow2W(WordBits - 3), WOne), FromNat(8)),
      Layout(Pow2W(WordBits - 2), FromNat(1)),
      Layout(WAdd(Pow2W(WordBits - 2), WOne), FromNat(1)),
      Layout(FromNat(1), FromNat(2 * MAX_SUPPORTED_ALIGN)) }

\* AddressSpaceRef::from((input, ref_m)) for an input of usize::MAX bytes at
\* address 0: the slices s and m, by address and length
WholeSpaceRef(mm, hosted, build) ==
    LET metadata_size == MetadataSize(mm, USIZE_MAX)
        split == WMax(metadata_size, mm)
    IN  IF hosted
        THEN [M |-> mm, allocable_len |-> USIZE_MAX, build |-> build,
              s_addr |-> split, s_len |-> WSub(USIZE_MAX, split),
              m_addr |-> WZero, m_len |-> split]
        ELSE [M |-> mm, allocable_len |-> USIZE_MAX, build |-> build,
              s_addr |-> WZero, s_len |-> USIZE_MAX,
              m_addr |-> WZero, m_len |-> metadata_size]

WholeSpaces ==
    { WholeSpaceRef(mm, hosted, build) :
          mm \in WholeCells, hosted \in BOOLEAN, build \in Builds }

\* max order of each space: Order::try_from((BuddySize(M), BuddySize(allocable_len)))
WHOLE_MAX_ORDER ==
    Word([sp \in WholeSpaces |-> Order_try_from(sp.M, sp.allocable_len).v])

max_order_usize(sp) == WHOLE_MAX_ORDER[sp]

\* (1 << max_order.0) * 2
bytes_needed_usize(sp) == 2 ^ (max_order_usize(sp) + 1)

\* the bytes of m the engine can reach: all of m, or the bytes of the tree
\* when m is longer
TreeLen(sp) ==
    IF WLt(sp.m_len, FromNat(bytes_needed_usize(sp)))
    THEN ToNat(sp.m_len) ELSE bytes_needed_usize(sp)

\* the two conversions of a Layout at the head of alloc and dealloc:
\* BuddySize::try_from(layout)? and Order::try_from((buddy_size,
\* BuddySize(allocable_len)))?
convert_usize(sp, layout) ==
    LET buddy_size == BuddySize_try_from(sp.M, layout)
    IN  IF ~buddy_size.ok THEN buddy_size
        ELSE LET order == Order_try_from(buddy_size.v, sp.allocable_len)
             IN  IF ~order.ok THEN order
                 ELSE [ok |-> TRUE, buddy_size |-> buddy_size.v, v |-> order.v]

WHOLE_CONVERTED ==
    Word([sp \in WholeSpaces |->
            Word([layout \in WholeLayouts |-> convert_usize(sp, layout)])])

\* set_mark on these arenas
set_mark_usize(max_order, mm, order) ==
    IF order < mm[FIRST_INDEX]
    THEN Err("NoMoreSpace")
    ELSE LET index == Descend(mm, FIRST_INDEX, 0, order)
         IN  [ok |-> TRUE, v |-> index,
              m |-> modify_parents(
                        [mm EXCEPT ![index] = (OCCUPIED + max_order + 1) % BYTE_MOD],
                        index, order, "Allocate")]

\* the order of the chunk of self-hosted metadata:
\* Order::try_from((BuddySize(max!(bytes_needed, M)), BuddySize(allocable_len)))
WHOLE_METADATA_ORDER ==
    Word([sp \in WholeSpaces |->
            Order_try_from(WMax(FromNat(bytes_needed_usize(sp)), sp.M), sp.allocable_len)])

\* write_metadata on these arenas: self.m[index] panics when the loop
\* reaches the end of m before bytes_needed; then the bootstrap and the stamp
write_metadata_usize(sp, mm, order) ==
    LET bytes_needed == bytes_needed_usize(sp)
        written == WriteOrders(mm, 0, 2, 0, bytes_needed)
        mark == IF order.ok THEN set_mark_usize(max_order_usize(sp), written, order.v)
                ELSE order
    IN  IF bytes_needed > TreeLen(sp)
        THEN [ok |-> FALSE, m |-> WriteOrders(mm, 0, 2, 0, TreeLen(sp))]
        ELSE IF sp.allocable_len # sp.s_len
        THEN IF mark.ok
             THEN [ok |-> TRUE, m |-> [mark.m EXCEPT ![0] = WRITTEN]]
             ELSE [ok |-> FALSE, m |-> written]
        ELSE [ok |-> TRUE, m |-> [written EXCEPT ![0] = WRITTEN]]

\* check_metadata on these arenas
check_metadata_usize(sp, mm, order) ==
    IF mm[0] = MUST_WRITE THEN write_metadata_usize(sp, mm, order)
    ELSE [ok |-> TRUE, m |-> mm]

\* self.allocable_len / (1 << order.0) * (index & ((1 << order.0) - 1))
alloc_offset_usize(sp, order, index) ==
    WMul(FromNat(index % (2 ^ order)), Shr(sp.allocable_len, order))

\* the end of alloc on words: alloc_offset -= self.m.len() when the metadata
\* is inside the arena, then self.s.get_mut(alloc_offset..alloc_offset +
\* buddy_size.0).unwrap(); a subtraction or an addition that wraps panics
\* in a build with overflow checks, and get_mut is None for a range that is
\* reversed or ends beyond s
alloc_slice_usize(sp, offset, buddy_size) ==
    LET hosted == sp.allocable_len # sp.s_len
        alloc_offset == IF hosted THEN WSub(offset, sp.m_len) ELSE offset
        end == WAdd(alloc_offset, buddy_size)
        wraps == (hosted /\ WLt(offset, sp.m_len)) \/ WLt(end, alloc_offset)
    IN  IF \/ sp.build = "debug" /\ wraps
           \/ WGt(alloc_offset, end)
           \/ WGt(end, sp.s_len)
        THEN [res |-> "panic", ptr |-> WZero, len |-> WZero]
        ELSE [res |-> "Ok", ptr |-> WAdd(sp.s_addr, alloc_offset), len |-> buddy_size]

\* the slice alloc returns for each node of each space (the order of a node
\* is its depth, its buddy size allocable_len rounded up over 2^order)
WHOLE_SLICE ==
    Word([sp \in WholeSpaces |->
            Word([index \in 2 .. (bytes_needed_usize(sp) - 1) |->
                    alloc_slice_usize(sp, alloc_offset_usize(sp, Depth(index), index),
                                      Pow2W(WordBits - Depth(index)))])])

\* AddressSpaceRef::alloc on words, from the converted layout on
alloc_usize(max_order, mm, converted, slices) ==
    LET mark == IF converted.ok THEN set_mark_usize(max_order, mm, converted.v)
                ELSE converted
    IN  IF ~mark.ok
        THEN [res |-> mark.err, ptr |-> WZero, len |-> WZero, m |-> mm]
        ELSE [res |-> slices[mark.v].res, ptr |-> slices[mark.v].ptr,
              len |-> slices[mark.v].len, m |-> mark.m]

\* (alloc_offset as u128 * (1 << order.0) as u128 / self.allocable_len as
\* u128) as usize for allocable_len = usize::MAX: the product is
\* hi * 2^64 + lo = hi * usize::MAX + (hi + lo), so the quotient is hi, and
\* one more when hi + lo reaches usize::MAX
wide_quotient_usize(alloc_offset, order) ==
    LET hi == Shr(alloc_offset, WordBits - order)
        lo == Shl(alloc_offset, order)
        sum == WAdd(hi, lo)
    IN  ToNat(hi) + (IF WLt(sum, hi) \/ sum = USIZE_MAX THEN 1 ELSE 0)

\* the index dealloc computes for a pointer and an order: the offset of the
\* pointer from m[0] or s[0] (a subtraction that wraps panics in a build
\* with overflow checks), scaled to the nodes of that order
dealloc_index_usize(sp, ptr, order) ==
    LET base == IF sp.allocable_len # sp.s_len THEN sp.m_addr ELSE sp.s_addr
    IN  IF sp.build = "debug" /\ WLt(ptr, base) THEN Err("panic")
        ELSE Ok(2 ^ order + wide_quotient_usize(WSub(ptr, base), order))

\* the pointer alloc computes for node index of the given order
WholeNodePtr(sp, index, order) ==
    WAdd(sp.s_addr,
         WSub(alloc_offset_usize(sp, order, index),
              IF sp.allocable_len # sp.s_len THEN sp.m_len ELSE WZero))

\* the pointers callers pass to dealloc: the one alloc computes for every
\* node below the root, and the start of every cell of an arena of 2^64 bytes
WholePtrs(sp) ==
    { WholeNodePtr(sp, i, Depth(i)) : i \in 2 .. (bytes_needed_usize(sp) - 1) }
        \cup { WMul(FromNat(k), sp.M) : k \in 1 .. (2 ^ max_order_usize(sp) - 1) }

WHOLE_PTRS == Word([sp \in WholeSpaces |-> WholePtrs(sp)])

WHOLE_INDEX ==
    Word([sp \in WholeSpaces |->
            Word([ptr \in WHOLE_PTRS[sp] |->
                    Word([order \in 0 .. max_order_usize(sp) |->
                            dealloc_index_usize(sp, ptr, order)])])])

\* AddressSpaceRef::dealloc on words, from the converted layout on
dealloc_usize(mm, converted, indexes) ==
    IF ~converted.ok
    THEN [res |-> converted.err, index |-> 0, order |-> 0, m |-> mm]
    ELSE IF ~indexes[converted.v].ok
    THEN [res |-> "panic", index |-> 0, order |-> converted.v, m |-> mm]
    ELSE dealloc_at(mm, converted.v, indexes[converted.v].v)

\* InnerBuddy::alloc on these arenas
InnerBuddy_alloc_usize(max_order, init, converted, slices) ==
    IF init.ok THEN alloc_usize(max_order, init.m, converted, slices)
    ELSE [res |-> "panic", ptr |-> WZero, len |-> WZero, m |-> init.m]

\* InnerBuddy::dealloc on these arenas
InnerBuddy_dealloc_usize(init, converted, indexes) ==
    IF init.ok THEN dealloc_usize(init.m, converted, indexes)
    ELSE [res |-> "panic", index |-> 0, order |-> 0, m |-> init.m]

\* an arena of usize::MAX bytes at address 0, with its metadata inside or
\* in a buffer of the length the constructor asserts
WholeInit ==
    \E mm \in WholeCells, hosted \in BOOLEAN, build \in Builds, g \in Garbage :
        /\ From_refs(mm, USIZE_MAX, WZero,
                     IF hosted THEN None ELSE Some(MetadataSize(mm, USIZE_MAX)),
                     build) = "Ok"
        /\ space = WholeSpaceRef(mm, hosted, build)
        /\ m = [i \in 0 .. (TreeLen(space) - 1) |-> IF i = 0 THEN MUST_WRITE ELSE g]
        /\ holder = 0
        /\ live = EmptyBag
        /\ out = NoOut
        /\ pc = [t \in Threads |-> "idle"]
        /\ hook = Hook(FALSE)

\* InnerBuddy::alloc under the lock on these arenas
WholeAllocate(t, layout) ==
    /\ pc[t] = "locked"
    /\ \E r \in { InnerBuddy_alloc_usize(
                       max_order_usize(space),
                       check_metadata_usize(space, m, WHOLE_METADATA_ORDER[space]),
                       WHOLE_CONVERTED[space][layout], WHOLE_SLICE[space]) } :
           /\ m' = r.m
           /\ live' = IF r.res = "Ok"
                      THEN live (+) SetToBag({ Block(r.ptr, r.len) })
                      ELSE live
           /\ out' = [op |-> "alloc", layout |-> layout, ptr |-> r.ptr, len |-> r.len,
                      res |-> r.res]
           /\ holder' = IF r.res = "panic" THEN POISONED ELSE 0
    /\ pc' = [pc EXCEPT ![t] = "idle"]
    /\ UNCHANGED << space, hook >>

\* InnerBuddy::dealloc under the lock on these arenas
WholeDeallocate(t, ptr, layout) ==
    /\ pc[t] = "locked"
    /\ \E r \in { InnerBuddy_dealloc_usize(
                       check_metadata_usize(space, m, WHOLE_METADATA_ORDER[space]),
                       WHOLE_CONVERTED[space][layout], WHOLE_INDEX[space][ptr]) } :
           /\ m' = r.m
           /\ live' = IF r.res = "Ok"
                      THEN live (-) SetToBag({ Block(WHOLE_SLICE[space][r.index].ptr,
                                                     WHOLE_SLICE[space][r.index].len) })
                      ELSE live
           /\ out' = [op |-> "dealloc", layout |-> layout, ptr |-> ptr, len |-> WZero,
                      res |-> r.res]
           /\ holder' = IF r.res = "panic" THEN POISONED ELSE 0
    /\ pc' = [pc EXCEPT ![t] = "idle"]
    /\ UNCHANGED << space, hook >>

WholeNext ==
    \E t \in Threads :
        \/ Acquire(t)
        \/ \E layout \in WholeLayouts : WholeAllocate(t, layout)
        \/ \E ptr \in WHOLE_PTRS[space], layout \in WholeLayouts :
               WholeDeallocate(t, ptr, layout)

WholeSpec == WholeInit /\ [][WholeNext]_vars

\* the tree an operation on an arena of usize::MAX bytes starts from
WholeTreeBefore == check_metadata_usize(space, m, WHOLE_METADATA_ORDER[space]).m

\* the node an allocate on such an arena has just marked
WholeMarkedNode ==
    CHOOSE k \in DOMAIN m' \ { 0 } : ~IsMarked(WholeTreeBefore[k]) /\ IsMarked(m'[k])

\* arena_pow = W: every layout that converts gets the order W - log2 of its
\* buddy size
C32_OrderFromWordBits ==
    \A layout \in WholeLayouts :
        LET converted == WHOLE_CONVERTED[space][layout]
        IN  converted.ok =>
                /\ converted.v \in 0 .. WordBits
                /\ converted.buddy_size = Pow2W(WordBits - converted.v)

\* an allocation at order o returns an offset that is a multiple of the
\* buddy size 2^(W - o)
C32_OffsetAligned ==
    [][(out'.op = "alloc" /\ out'.res = "Ok") =>
           /\ out'.len = Pow2W(WordBits - Depth(WholeMarkedNode))
           /\ WAnd(out'.ptr, WSub(out'.len, WOne)) = WZero]_vars

\* deallocate maps the pointer an allocation returned back to the node that
\* was marked
C32_MapsBack ==
    [][(out'.op = "alloc" /\ out'.res = "Ok") =>
           LET back == dealloc_usize(m', WHOLE_CONVERTED[space][out'.layout],
                                     WHOLE_INDEX[space][out'.ptr])
           IN  back.res = "Ok" /\ back.index = WholeMarkedNode]_vars

\* no call panics: in an arena of 2^W bytes every call returns a block or an
\* error value
C32_NoPanic == [][out'.res # "panic"]_vars

\* C32: on an arena whose length is usize::MAX the allocator behaves as on
\* an arena of 2^W bytes: orders are counted from W, calls return without a
\* panic, every block returned lies at a multiple of its buddy size, and
\* deallocate finds the node of every pointer returned.
C32_WholeAddressSpace ==
    /\ []C32_OrderFromWordBits
    /\ C32_NoPanic
    /\ C32_OffsetAligned
    /\ C32_MapsBack

\* the error values of the engine
EngineErrors ==
    { "CannotFit", "TooBigSize", "TooBigAlignment", "NoMoreSpace",
      "DoubleFreeOrCorruption" }

\* an allocate or deallocate call has just returned one of the error values
ReturnsError == out'.op # "none" /\ out'.res \in EngineErrors

\* C33 as stated: every allocate or deallocate call that returns an error
\* leaves every byte of the metadata unchanged, and no call panics
C33_Original ==
    [][/\ ReturnsError => m' = m
       /\ out'.res # "panic"]_vars

\* C33: every allocate or deallocate call that returns an error leaves the
\* metadata as it was when the tree was already written, and as the freshly
\* written initial tree when the call is the first one on the arena; the
\* error comes back as a value, no call panics
C33_ErrorKeepsTree ==
    [][/\ ReturnsError => m' = TreeBefore
       /\ (ReturnsError /\ m[0] = WRITTEN) => m' = m
       /\ out'.res # "panic"]_vars

\* an error has been returned while allocations are live
C33_Witness ==
    /\ out.op # "none" /\ out.res \in { "NoMoreSpace", "DoubleFreeOrCorruption" }
    /\ live # EmptyBag
    /\ m[0] = WRITTEN
    /\ \E i \in TreeNodes(space) : IsMarked(m[i])

\* the nodes strictly below node i
Descendants(sp, i) == { k \in TreeNodes(sp) : k # i /\ InSubtree(k, i) }

\* C34: once the tree is written, an occupied node has no occupied ancestor
\* and no occupied descendant, so that at most one node of any root-to-leaf
\* path is occupied, and every descendant of an occupied node holds its
\* initial value, its own depth
C34_OccupiedNotNested ==
    m[0] = WRITTEN =>
        \A i \in Occupied(m) :
            /\ \A a \in Ancestors(space, i) : ~IsMarked(m[a])
            /\ \A k \in Descendants(space, i) : m[k] = Depth(k)

\* a buddy above the leaves has been allocated after blocks below it had
\* been allocated and given back, while another chunk is out
C34_Witness ==
    /\ m[0] = WRITTEN
    /\ out.op = "alloc" /\ out.res = "Ok"
    /\ LET i == NodeOf(space, Block(out.ptr, out.len))
       IN  /\ IsMarked(m[i])
           /\ Depth(i) + 2 <= MaxOrder(space)
           /\ i # 2 ^ Depth(i)
           /\ Cardinality(Occupied(m)) >= 3

\* the requests whose buddy size fits the arena and differs from len
OtherSizes(sp, len) ==
    { li \in LayoutIds : FitsArena(sp, li) /\ BuddyLen(sp, li) # len }

\* C35: in every reachable state, deallocate called with the start pointer
\* of a block a caller holds and a layout whose buddy size fits the arena
\* but differs from the one of the block returns DoubleFreeOrCorruption and
\* leaves the metadata as it is
C35_WrongSizeRejected ==
    \A b \in LiveBlocks : \A li \in OtherSizes(space, b.len) :
        \E r \in { InnerBuddy_dealloc(space, m, b.ptr, li) } :
            /\ r.res = "DoubleFreeOrCorruption"
            /\ r.m = m

\* a deallocation with a layout of another buddy size than a block that is
\* held has just been refused, with blocks of two sizes out
C35_Witness ==
    /\ out.op = "dealloc" /\ out.res = "DoubleFreeOrCorruption"
    /\ \E b, c \in LiveBlocks :
           /\ b.len < c.len
           /\ out.layout \in OtherSizes(space, b.len)
           /\ out.layout \in OtherSizes(space, c.len)

\* the pointers into the arena, metadata included when it is hosted, at
\* every half cell: cell boundaries and addresses inside cells
ArenaPtrs(sp) ==
    { ArenaBase(sp) + k * (sp.M \div 2) :
          k \in 0 .. (2 * (sp.allocable_len \div sp.M) - 1) }

\* the buddy of len bytes that holds ptr
BuddyAround(sp, ptr, len) ==
    Block(ArenaBase(sp) + ((ptr - ArenaBase(sp)) \div len) * len, len)

\* the requests whose buddy size fits the arena
Fitting(sp) == { li \in LayoutIds : FitsArena(sp, li) }

\* the blocks whose node is occupied: those callers hold and, in a hosted
\* arena, the chunk of the metadata once the first call has written the tree
TakenBlocks(sp) ==
    LiveBlocks \cup (IF SelfHosted(sp) THEN { MetadataChunk(sp) } ELSE {})

ChosenNodes(sp, i) == (Ancestors(sp, i) \cup { i }) \ { FIRST_INDEX }

\* the free tree the initialiser writes before it reserves the metadata
PristineTree(sp, mm) == WriteOrders(mm, 0, 2, 0, (2 ^ MaxOrder(sp)) * 2)

\* C37: an allocation whose order o passes the root check (node[1] <= o)
\* succeeds, and on its descent every child chosen holds a value <= o that
\* is greater than the depth of its parent, so the debug assertion of the
\* loop holds at every turn; the node it marks held exactly o, it was not
\* occupied and its buddy was completely free. The same holds of the descent
\* that reserves hosted metadata in the tree just written.
C37_DescentStaysOnFreePath ==
    [][/\ out'.op = "alloc" =>
              \E r \in { ORDER_OF[space.M][space.allocable_len][out'.layout] } :
                  (r.ok /\ TreeBefore[FIRST_INDEX] <= r.v) =>
                      /\ out'.res = "Ok"
                      /\ ReturnedOrder = r.v
                      /\ DescendAsserts(TreeBefore, FIRST_INDEX, 0, r.v)
                      /\ \A c \in ChosenNodes(space, ReturnedNode) :
                             /\ TreeBefore[c] <= r.v
                             /\ TreeBefore[c] > Depth(c \div 2)
                      /\ Depth(ReturnedNode) = r.v
                      /\ TreeBefore[ReturnedNode] = r.v
                      /\ ~IsMarked(TreeBefore[ReturnedNode])
                      /\ CompletelyFree(space, TreeBefore, ReturnedNode)
                      /\ IsMarked(m'[ReturnedNode])
       /\ (out'.op # "none" /\ m[0] = MUST_WRITE /\ SelfHosted(space)) =>
              \E t \in { PristineTree(space, m) } :
              \E o \in { Depth(MetadataNode(space)) } :
                  /\ t[FIRST_INDEX] <= o
                  /\ DescendAsserts(t, FIRST_INDEX, 0, o)
                  /\ Descend(t, FIRST_INDEX, 0, o) = MetadataNode(space)
                  /\ t[MetadataNode(space)] = o]_vars

\* an allocation two levels or more below the root has just turned right
\* at its last step, past an occupied left sibling, with other chunks out
C37_Witness ==
    /\ out.op = "alloc" /\ out.res = "Ok"
    /\ LET i == NodeOf(space, Block(out.ptr, out.len))
       IN  /\ Depth(i) >= 2
           /\ i % 2 = 1
           /\ IsMarked(m[i]) /\ IsMarked(m[i - 1])
           /\ BagCardinality(live) >= 3

\* the byte of an occupied node of the space
OccupiedMarker(sp) == OCCUPIED + MaxOrder(sp) + 1

\* C38: once the tree is written, the bytes of the tree are the nodes 1 to
\* 2 * A / M - 1, and every node i holds either a free value from Depth(i)
\* to MAX_ORDER + 1 or exactly the marker 0x80 + MAX_ORDER + 1, which is
\* less than 256
C38_NodeValues ==
    m[0] = WRITTEN =>
        /\ OccupiedMarker(space) < BYTE_MOD
        /\ DOMAIN m = 0 .. (2 * (space.allocable_len \div space.M) - 1)
        /\ TreeNodes(space) = DOMAIN m \ { 0 }
        /\ \A i \in TreeNodes(space) :
               \/ Depth(i) <= m[i] /\ m[i] <= MaxOrder(space) + 1
               \/ m[i] = OccupiedMarker(space)

\* after a call, a node above the leaves is free with nothing left below it
\* (MAX_ORDER + 1), another holds a value between its depth and MAX_ORDER + 1,
\* and chunks of two depths are occupied
C38_Witness ==
    /\ m[0] = WRITTEN
    /\ out.op # "none"
    /\ \E i, j \in TreeNodes(space) :
           /\ Depth(i) >= 1 /\ Depth(i) < MaxOrder(space)
           /\ m[i] = MaxOrder(space) + 1
           /\ Depth(j) < m[j] /\ m[j] <= MaxOrder(space)
    /\ \E i, j \in Occupied(m) : Depth(i) < Depth(j)

\* the offset alloc computes for node index of the given order, before the
\* length of hosted metadata is taken off
ArenaOffset(sp, order, index) ==
    (sp.allocable_len \div (2 ^ order)) * (index % (2 ^ order))

\* C39: no unsigned subtraction of allocate or deallocate underflows. For
\* every allocation that marks a node, the offset of the node in the arena
\* is at least m.len() when the metadata is hosted, the range returned lies
\* inside the slice s and the call does not panic; every pointer of s is at
\* or above the base deallocate subtracts from it; and the subtractions of
\* modify_parents, in allocate, in deallocate and in the reservation of
\* hosted metadata, are evaluated with order >= 1.
C39_NoUnderflow ==
    [][/\ out'.res # "panic"
       /\ \A ptr \in UserPtrs(space) : ptr >= ArenaBase(space)
       /\ (out'.op = "alloc" /\ \E k \in TreeNodes(space) :
                                    ~IsMarked(TreeBefore[k]) /\ IsMarked(m'[k])) =>
              \E i \in { MarkedNode } : \E o \in { Depth(MarkedNode) } :
              \E offset \in { ArenaOffset(space, o, i) } :
                  /\ out'.res = "Ok"
                  /\ SelfHosted(space) => offset >= space.m_len
                  /\ out'.ptr - space.s_addr =
                         offset - (IF SelfHosted(space) THEN space.m_len ELSE 0)
                  /\ out'.ptr >= space.s_addr
                  /\ out'.ptr + out'.len <= space.s_addr + space.s_len
                  /\ ParentOrdersPositive(
                         [TreeBefore EXCEPT ![i] = OccupiedMarker(space)],
                         i, o, "Allocate")
       /\ (out'.op = "dealloc" /\ out'.res = "Ok") =>
              \E k \in { FreedNode } :
                  ParentOrdersPositive([m EXCEPT ![k] = Depth(k)], k, Depth(k),
                                       "Deallocate")
       /\ (out'.op # "none" /\ m[0] = MUST_WRITE /\ SelfHosted(space)) =>
              \E k \in { MetadataNode(space) } :
                  ParentOrdersPositive(
                      [PristineTree(space, m) EXCEPT ![k] = OccupiedMarker(space)],
                      k, Depth(k), "Allocate")]_vars

\* in a hosted arena the block right behind the metadata has been handed
\* out, at offset 0 of s, and a deallocation has since coalesced two buddies
C39_Witness ==
    /\ SelfHosted(space)
    /\ \E b \in LiveBlocks : b.ptr = space.s_addr
    /\ out.op = "dealloc" /\ out.res = "Ok"
    /\ \E i \in TreeNodes(space) :
           /\ Depth(i) >= 1 /\ Depth(i) < MaxOrder(space)
           /\ m[i] = Depth(i)
           /\ IsMarked(m[i + 1]) \/ IsMarked(m[i - 1])

====
